---- MODULE Spec2Model ----
(***************************************************************************)
(* Model of the executor package of jq1836/DDNS: the attempt loop Execute  *)
(* (config/config.go, lines 276-333), the retry strategies and the timeout *)
(* strategies (executor/timeout_strategies.go).                            *)
(*                                                                         *)
(* One behaviour of the model is one call of Execute on one Executor.  The *)
(* Executor's configuration is chosen in Init and never changes.  The task *)
(* is an arbitrary Go closure: each invocation returns any value together  *)
(* with nil, one of its own errors, or the error of its token when that    *)
(* token is done.  Durations are abstract integers; time itself is not     *)
(* modelled, a timer is an event that fires at some point.                 *)
(***************************************************************************)
EXTENDS Integers, Sequences, FiniteSets, TLC

(***************************************************************************)
(* Bounds of the model.                                                    *)
(***************************************************************************)
MaxAttemptsBound == 2

(***************************************************************************)
(* Errors.  NilErr is Go's nil error; Canceled and DeadlineExceeded are    *)
(* context.Canceled and context.DeadlineExceeded; TaskErrors are errors    *)
(* the task creates itself (errors.New).                                   *)
(***************************************************************************)
NilErr == "nil"

Canceled == "Canceled"

DeadlineExceeded == "DeadlineExceeded"

TaskErrors == {"retryable", "other"}

(***************************************************************************)
(* Values of the result type T.  ZeroValue is Go's zero value of T.        *)
(***************************************************************************)
ZeroValue == 0

Values == {0, 1}

(***************************************************************************)
(* Durations used by the configurations (abstract units).                  *)
(***************************************************************************)
DefaultMaxDelay == 30

DefaultTimeout == 30

DefaultBaseDelay == 1

DefaultMultiplier == 2

DefaultMaxAttempts == 3

RECURSIVE Pow(_, _)
Pow(b, e) == IF e <= 0 THEN 1 ELSE b * Pow(b, e - 1)

(***************************************************************************)
(* Retry strategies.  A strategy is a record; fields a variant does not    *)
(* have are 0 / "none".  kind "custom" is a caller-written implementation  *)
(* of the RetryStrategy interface whose ShouldRetry always returns true.   *)
(***************************************************************************)
Strategy(kind, maxAttempts, baseDelay, multiplier, maxDelay, increment, pred) ==
    [kind |-> kind, maxAttempts |-> maxAttempts, baseDelay |-> baseDelay,
     multiplier |-> multiplier, maxDelay |-> maxDelay, increment |-> increment,
     pred |-> pred]

NewExponentialBackoffStrategy(maxAttempts, baseDelay, multiplier) ==
    Strategy("exponential", maxAttempts, baseDelay, multiplier, DefaultMaxDelay, 0, "none")

NewLinearBackoffStrategy(maxAttempts, baseDelay, increment) ==
    Strategy("linear", maxAttempts, baseDelay, 0, 0, increment, "none")

NewFixedDelayStrategy(maxAttempts, delay) ==
    Strategy("fixed", maxAttempts, delay, 0, 0, 0, "none")

NewNoRetryStrategy == Strategy("none", 0, 0, 0, 0, 0, "none")

NewConditionalRetryStrategy(maxAttempts, baseDelay, pred) ==
    Strategy("conditional", maxAttempts, baseDelay, 0, 0, 0, pred)

CustomAlwaysRetry(maxAttempts, delay) ==
    Strategy("custom", maxAttempts, delay, 0, 0, 0, "none")

\* The predicate of TestConditionalRetryStrategy: retry only "retryable".
RetryablePredicate(attempt, err) == err # NilErr /\ err = "retryable"

ShouldRetryOffByOne(s, attempt, err) ==
    CASE s.kind = "none" -> FALSE
      [] s.kind = "custom" -> TRUE
      [] s.kind = "conditional" ->
            IF attempt + 1 >= s.maxAttempts THEN FALSE
            ELSE IF s.pred = "retryable" THEN RetryablePredicate(attempt, err)
            ELSE err # NilErr
      [] OTHER ->
            IF attempt + 1 >= s.maxAttempts THEN FALSE
            ELSE err # NilErr

ShouldRetryNoTimeouts(s, attempt, err) ==
    CASE s.kind = "none" -> FALSE
      [] s.kind = "custom" -> TRUE
      [] s.kind = "conditional" ->
            IF attempt >= s.maxAttempts THEN FALSE
            ELSE IF s.pred = "retryable" THEN RetryablePredicate(attempt, err)
            ELSE err # NilErr
      [] OTHER ->
            IF attempt >= s.maxAttempts THEN FALSE
            ELSE err # NilErr /\ err # DeadlineExceeded

ShouldRetryIgnoresPredicate(s, attempt, err) ==
    CASE s.kind = "none" -> FALSE
      [] s.kind = "custom" -> TRUE
      [] OTHER ->
            IF attempt >= s.maxAttempts THEN FALSE
            ELSE err # NilErr

ShouldRetryLinearPastMax(s, attempt, err) ==
    CASE s.kind = "none" -> FALSE
      [] s.kind = "custom" -> TRUE
      [] s.kind = "conditional" ->
            IF attempt >= s.maxAttempts THEN FALSE
            ELSE IF s.pred = "retryable" THEN RetryablePredicate(attempt, err)
            ELSE err # NilErr
      [] s.kind = "exponential" ->
            IF attempt >= s.maxAttempts THEN FALSE
            ELSE err # NilErr
      [] s.kind = "linear" ->
            IF attempt > s.maxAttempts THEN FALSE
            ELSE err # NilErr
      [] s.kind = "fixed" ->
            IF attempt >= s.maxAttempts THEN FALSE
            ELSE err # NilErr

\* ShouldRetry of each variant: NoRetryStrategy, a caller-written strategy,
\* ConditionalRetryStrategy, ExponentialBackoffStrategy (lines 127-136),
\* LinearBackoffStrategy (lines 171-177), FixedDelayStrategy (lines 203-209)
ShouldRetry(s, attempt, err) ==
    CASE s.kind = "none" -> FALSE
      [] s.kind = "custom" -> TRUE
      [] s.kind = "conditional" ->
            IF attempt >= s.maxAttempts THEN FALSE
            ELSE IF s.pred = "retryable" THEN RetryablePredicate(attempt, err)
            ELSE err # NilErr
      [] s.kind = "exponential" ->
            IF attempt >= s.maxAttempts THEN FALSE
            ELSE err # NilErr
      [] s.kind = "linear" ->
            IF attempt >= s.maxAttempts THEN FALSE
            ELSE err # NilErr
      [] s.kind = "fixed" ->
            IF attempt >= s.maxAttempts THEN FALSE
            ELSE err # NilErr

\* ConditionalRetryStrategy.ShouldRetry calls shouldRetryFn only past the
\* attempt >= maxAttempts return and only when one was given
ConsultsPredicate(s, attempt) ==
    /\ s.kind = "conditional"
    /\ ~(attempt >= s.maxAttempts)
    /\ s.pred # "none"

GetDelay(s, attempt) ==
    CASE s.kind = "exponential" ->
            LET delay == s.baseDelay * Pow(s.multiplier, attempt - 1)
            IN  IF delay > s.maxDelay THEN s.maxDelay ELSE delay
      [] s.kind = "linear" -> s.baseDelay + (attempt - 1) * s.increment
      [] s.kind = "none" -> 0
      [] OTHER -> s.baseDelay

GetMaxAttemptsAsRetries(s) == IF s.kind = "none" THEN 1 ELSE s.maxAttempts - 1

GetMaxAttempts(s) == IF s.kind = "none" THEN 1 ELSE s.maxAttempts

(***************************************************************************)
(* Timeout strategies.                                                     *)
(***************************************************************************)
NewFixedTimeoutStrategy(timeout) ==
    [kind |-> "fixed", baseTimeout |-> timeout, multiplier |-> 0, maxTimeout |-> 0]

NewProgressiveTimeoutStrategy(baseTimeout, multiplier, maxTimeout) ==
    [kind |-> "progressive", baseTimeout |-> baseTimeout,
     multiplier |-> multiplier, maxTimeout |-> maxTimeout]

GetTimeout(t, attempt) ==
    CASE t.kind = "progressive" ->
            LET timeout == t.baseTimeout * Pow(t.multiplier, attempt - 1)
            IN  IF timeout > t.maxTimeout THEN t.maxTimeout ELSE timeout
      [] OTHER -> t.baseTimeout

(***************************************************************************)
(* The configurations explored.  maxAttempts 0 is the configuration        *)
(* NewFixedDelayStrategy(0, d), which ExecuteWithRetries builds for        *)
(* maxRetries = -1.                                                        *)
(***************************************************************************)
RetryStrategies ==
    {NewFixedDelayStrategy(n, 10) : n \in 0..MaxAttemptsBound}
    \cup {NewNoRetryStrategy}
    \cup {NewExponentialBackoffStrategy(DefaultMaxAttempts, DefaultBaseDelay,
                                        DefaultMultiplier)}
    \cup {NewLinearBackoffStrategy(2, 1, 1)}
    \cup {NewConditionalRetryStrategy(2, 1, p) : p \in {"none", "retryable"}}
    \cup {CustomAlwaysRetry(n, 0) : n \in 0..MaxAttemptsBound}

(***************************************************************************)
(* NewExecutor and its options, config/config.go lines 234-274.  An option *)
(* is the field it sets and the value it sets it to; callbacks are         *)
(* modelled by whether one is set.                                         *)
(***************************************************************************)
WithRetryStrategy(strategy) == [field |-> "retryStrategy", value |-> strategy]

WithTimeoutStrategy(strategy) == [field |-> "timeoutStrategy", value |-> strategy]

WithRetryCallback == [field |-> "onRetry", value |-> TRUE]

WithTimeoutCallback == [field |-> "onTimeout", value |-> TRUE]

\* executor := &Executor{retryStrategy: ..., timeoutStrategy: ...}
DefaultExecutor ==
    [retryStrategy |-> NewExponentialBackoffStrategy(DefaultMaxAttempts,
                                                     DefaultBaseDelay, DefaultMultiplier),
     timeoutStrategy |-> NewFixedTimeoutStrategy(DefaultTimeout),
     onRetry |-> FALSE,
     onTimeout |-> FALSE]

ApplyOptionOnDefaults(e, option) == [DefaultExecutor EXCEPT ![option.field] = option.value]

\* option(executor)
ApplyOption(e, option) == [e EXCEPT ![option.field] = option.value]

RECURSIVE ApplyOptions(_, _)
ApplyOptions(e, options) ==
    IF options = <<>> THEN e
    ELSE ApplyOptions(ApplyOption(e, Head(options)), Tail(options))

NewExecutor(options) == ApplyOptions(DefaultExecutor, options)

\* The option lists explored.  The default retry strategy is explored by
\* giving no WithRetryStrategy option.  The timeout of an attempt is set
\* with or without the onTimeout callback.
RetryOptions ==
    {<<>>} \cup
    {<<WithRetryStrategy(r)>> :
        r \in RetryStrategies \ {DefaultExecutor.retryStrategy}}

TimeoutOptions ==
    {<<>>, <<WithTimeoutStrategy(NewProgressiveTimeoutStrategy(1, 2, 10)),
             WithTimeoutCallback>>}

CallbackOptions == {<<>>, <<WithRetryCallback>>}

OptionLists ==
    {r \o t \o c : r \in RetryOptions, t \in TimeoutOptions, c \in CallbackOptions}

Executors == {NewExecutor(options) : options \in OptionLists}

(***************************************************************************)
(* Entry points.  A call enters through ExecuteSimple on an Executor built *)
(* by NewExecutor(options), or through one of the two convenience          *)
(* functions, which build their own Executor.                              *)
(***************************************************************************)
Entry(fn, options, maxRetries, d, timeout) ==
    [fn |-> fn, options |-> options, maxRetries |-> maxRetries, delay |-> d,
     timeout |-> timeout]

ExecuteWithTimeoutExecutorDefaultRetry(timeout) ==
    NewExecutor(<<WithTimeoutStrategy(NewFixedTimeoutStrategy(timeout))>>)

\* ExecuteWithTimeout: NewExecutor(WithRetryStrategy(NewNoRetryStrategy()),
\*                                 WithTimeoutStrategy(NewFixedTimeoutStrategy(timeout)))
ExecuteWithTimeoutExecutor(timeout) ==
    NewExecutor(<<WithRetryStrategy(NewNoRetryStrategy),
                  WithTimeoutStrategy(NewFixedTimeoutStrategy(timeout))>>)

ExecuteWithRetriesExecutorAsAttempts(maxRetries, d, timeout) ==
    NewExecutor(<<WithRetryStrategy(NewFixedDelayStrategy(maxRetries, d)),
                  WithTimeoutStrategy(NewFixedTimeoutStrategy(timeout))>>)

\* ExecuteWithRetries: NewExecutor(WithRetryStrategy(NewFixedDelayStrategy(maxRetries+1, delay)),
\*                                 WithTimeoutStrategy(NewFixedTimeoutStrategy(timeout)))
ExecuteWithRetriesExecutor(maxRetries, d, timeout) ==
    NewExecutor(<<WithRetryStrategy(NewFixedDelayStrategy(maxRetries + 1, d)),
                  WithTimeoutStrategy(NewFixedTimeoutStrategy(timeout))>>)

Entries ==
    {Entry("ExecuteSimple", options, 0, 0, 0) : options \in OptionLists}
    \cup {Entry("ExecuteWithTimeout", <<>>, 0, 0, 3)}
    \cup {Entry("ExecuteWithRetries", <<>>, n, 5, 3) : n \in (-1)..(MaxAttemptsBound - 1)}

ExecutorOf(e) ==
    CASE e.fn = "ExecuteWithTimeout" -> ExecuteWithTimeoutExecutor(e.timeout)
      [] e.fn = "ExecuteWithRetries" ->
            ExecuteWithRetriesExecutor(e.maxRetries, e.delay, e.timeout)
      [] OTHER -> NewExecutor(e.options)

(***************************************************************************)
(* State.                                                                  *)
(***************************************************************************)
VARIABLES
    client,       \* the DDNS client of main.go: its loop, ticker and shutdown signal
    cfg,          \* a call of Config.Validate or of Load, and its result
    svc,          \* a ddns.Service: provider, detector, last call of UpdateIP
    probe,        \* a strategy function called on its own, and its results
    sides,        \* two calls side by side, with and without callbacks
    calls,        \* concurrent calls of Execute on one Executor: the locals of each
    attempts,     \* concurrent calls: the loop variable attempt of each call
    entry,        \* the function the caller called, with its arguments
    outer,        \* what that function returned: <<value, error>>, or <<>> before
    executor,     \* the Executor: retryStrategy, timeoutStrategy, onRetry, onTimeout
    pc,           \* position of the call of Execute
    attempt,      \* loop variable attempt
    maxAttempts,  \* local maxAttempts
    lastResult,   \* local lastResult
    ctx,          \* the parent token: "live" or "canceled"
    taskCtx,      \* the per-attempt token: "none", "live", "expired", "canceled", "released"
    taskErr,      \* local err of the attempt that just returned
    delay,        \* local delay of the wait in progress
    timerFired,   \* the channel of time.After(delay) is ready
    woken,        \* case that woke the parked select: "none", "done", "timer"
    cancelledAt,  \* pc at which the parent was cancelled, "never" before
    returned,     \* what Execute returned: <<result, error>>, or <<>> before
    log           \* observable events of the call, in order

vars == <<client, cfg, svc, probe, sides, calls, attempts, entry, outer, executor, pc, attempt, maxAttempts, lastResult, ctx, taskCtx, taskErr,
          delay, timerFired, woken, cancelledAt, returned, log>>

ZeroResult == [Value |-> ZeroValue, Error |-> NilErr, Attempt |-> 0]

\* One call of Execute, at its start
SingleCall ==
    /\ outer = <<>>
    /\ executor = ExecutorOf(entry)
    /\ pc = "idle"
    /\ attempt = 0
    /\ maxAttempts = 0
    /\ lastResult = ZeroResult
    /\ ctx = "live"
    /\ taskCtx = "none"
    /\ taskErr = NilErr
    /\ delay = 0
    /\ timerFired = FALSE
    /\ woken = "none"
    /\ cancelledAt = "never"
    /\ returned = <<>>
    /\ log = <<>>

Init ==
    /\ client = <<>>
    /\ cfg = <<>>
    /\ svc = <<>>
    /\ probe = <<>>
    /\ sides = <<>>
    /\ calls = <<>>
    /\ attempts = <<>>
    /\ entry \in Entries
    /\ SingleCall

(***************************************************************************)
(* Helpers of the attempt loop.                                            *)
(***************************************************************************)
LoopCondOffByOne(a, m) == a <= m + 1

\* for attempt := 1; attempt <= maxAttempts; attempt++
LoopCond(a, m) == a <= m

WithTimeoutNoDeadline(parent, timeout) ==
    IF parent = "canceled" THEN "canceled" ELSE "none"

\* context.WithTimeout(ctx, timeout): a child of a cancelled parent is
\* cancelled at once; a deadline that has already passed expires it at once.
WithTimeout(parent, timeout) ==
    IF parent = "canceled" THEN "canceled"
    ELSE IF timeout <= 0 THEN "expired"
    ELSE "live"

\* taskCtx.Err() of a token that is done; no error while it is not done.
CtxErrs(token) ==
    CASE token = "expired" -> {DeadlineExceeded}
      [] token = "canceled" -> {Canceled}
      [] OTHER -> {}

\* lastResult = Result[T]{Value: value, Error: err, Attempt: attempt}
RecordResult(value, err, a) == [Value |-> value, Error |-> err, Attempt |-> a]

AfterFailureAlwaysWait(sr, a, m) == "wait"
AfterFailureWaitOnLast(sr, a, m) == IF ~sr THEN "break" ELSE "wait"

AfterFailureOffByOne(sr, a, m) ==
    IF ~sr THEN "break"
    ELSE IF a <= m THEN "wait"
    ELSE "next"

\* What the loop does after a failed attempt: "break" (ShouldRetry false),
\* "wait" (attempt < maxAttempts) or "next" (fall through to attempt++).
AfterFailure(sr, a, m) ==
    IF ~sr THEN "break"
    ELSE IF a < m THEN "wait"
    ELSE "next"

ReadyCasesMissed(parent, fired) == {}

ReadyCasesTimerAlways(parent, fired) ==
    (IF parent = "canceled" THEN {"done"} ELSE {}) \cup {"timer"}

\* The select of the inter-attempt wait, when it polls its two channels:
\* the cases that are ready.  Go chooses among ready cases at random.
ReadyCases(parent, fired) ==
    (IF parent = "canceled" THEN {"done"} ELSE {})
    \cup (IF fired THEN {"timer"} ELSE {})

OverwriteErrorNoop(result, err) == result

OverwriteErrorFresh(result, err) == [Value |-> ZeroValue, Error |-> err, Attempt |-> 0]

OverwriteErrorWrapped(result, err) == [result EXCEPT !.Error = "other"]

OverwriteErrorClearsValue(result, err) ==
    [result EXCEPT !.Error = err, !.Value = ZeroValue]

\* lastResult.Error = ctx.Err()
OverwriteError(result, err) == [result EXCEPT !.Error = err]

Emit(events) == log' = log \o events

(***************************************************************************)
(* Execute, config/config.go lines 277-333.                                *)
(***************************************************************************)
\* var lastResult; maxAttempts := GetMaxAttempts(); attempt := 1
Begin ==
    /\ pc = "idle"
    /\ pc' = "loop"
    /\ maxAttempts' = GetMaxAttempts(executor.retryStrategy)
    /\ attempt' = 1
    /\ lastResult' = ZeroResult
    /\ UNCHANGED <<client, cfg, svc, probe, sides, calls, attempts, entry, outer, executor, ctx, taskCtx, taskErr, delay, timerFired, woken,
                   cancelledAt, returned, log>>

\* Loop condition false: return &lastResult, lastResult.Error
LoopExit ==
    /\ pc = "loop"
    /\ ~LoopCond(attempt, maxAttempts)
    /\ pc' = "returned"
    /\ returned' = <<lastResult, lastResult.Error>>
    /\ UNCHANGED <<client, cfg, svc, probe, sides, calls, attempts, entry, outer, executor, attempt, maxAttempts, lastResult, ctx, taskCtx,
                   taskErr, delay, timerFired, woken, cancelledAt, log>>

StartAttemptCallbackLate ==
    /\ pc = "loop"
    /\ LoopCond(attempt, maxAttempts)
    /\ LET timeout == GetTimeout(executor.timeoutStrategy, attempt)
       IN  /\ taskCtx' = WithTimeout(ctx, timeout)
           /\ Emit(<<(<<"task", attempt, timeout>>)>>
                   \o (IF executor.onTimeout
                       THEN <<(<<"onTimeout", attempt, timeout>>)>> ELSE <<>>))
    /\ pc' = "task"
    /\ UNCHANGED <<client, cfg, svc, probe, sides, calls, attempts, entry, outer, executor, attempt, maxAttempts, lastResult, ctx,
                   taskErr, delay, timerFired, woken, cancelledAt, returned>>

\* GetTimeout, context.WithTimeout, onTimeout callback, task(taskCtx) is called
StartAttempt ==
    /\ pc = "loop"
    /\ LoopCond(attempt, maxAttempts)
    /\ LET timeout == GetTimeout(executor.timeoutStrategy, attempt)
       IN  /\ taskCtx' = WithTimeout(ctx, timeout)
           /\ Emit((IF executor.onTimeout
                    THEN <<(<<"onTimeout", attempt, timeout>>)>> ELSE <<>>)
                   \o <<(<<"task", attempt, timeout>>)>>)
    /\ pc' = "task"
    /\ UNCHANGED <<client, cfg, svc, probe, sides, calls, attempts, entry, outer, executor, attempt, maxAttempts, lastResult, ctx, taskErr,
                   delay, timerFired, woken, cancelledAt, returned>>

\* The deadline of the per-attempt token passes while the task runs.
TokenExpire ==
    /\ pc = "task"
    /\ taskCtx = "live"
    /\ taskCtx' = "expired"
    /\ Emit(<<(<<"expire", attempt>>)>>)
    /\ UNCHANGED <<client, cfg, svc, probe, sides, calls, attempts, entry, outer, executor, pc, attempt, maxAttempts, lastResult, ctx, taskErr,
                   delay, timerFired, woken, cancelledAt, returned>>

\* The caller cancels the parent token, at any point before Execute returns.
\* A live child token is cancelled with it.  A select parked on ctx.Done()
\* with no case chosen yet is woken with the Done case.
CancelParent ==
    /\ ctx = "live"
    /\ pc # "returned"
    /\ ctx' = "canceled"
    /\ taskCtx' = IF taskCtx = "live" THEN "canceled" ELSE taskCtx
    /\ woken' = IF pc = "parked" /\ woken = "none" THEN "done" ELSE woken
    /\ cancelledAt' = IF pc = "parked" /\ woken # "none" THEN "woken" ELSE pc
    /\ Emit(<<(<<"cancel">>)>>)
    /\ UNCHANGED <<client, cfg, svc, probe, sides, calls, attempts, entry, outer, executor, pc, attempt, maxAttempts, lastResult, taskErr,
                   delay, timerFired, returned>>

TaskReturnDeferredCancel ==
    /\ pc = "task"
    /\ \E value \in Values, err \in {NilErr} \cup TaskErrors \cup CtxErrs(taskCtx) :
          /\ lastResult' = RecordResult(value, err, attempt)
          /\ taskErr' = err
          /\ Emit(<<(<<"ret", attempt, value, err>>)>>)
    /\ pc' = "check"
    /\ UNCHANGED <<client, cfg, svc, probe, sides, calls, attempts, entry, outer, executor, attempt, maxAttempts, ctx, taskCtx, delay, timerFired,
                   woken, cancelledAt, returned>>

\* value, err := task(taskCtx); cancel(); lastResult = Result{...}
TaskReturn ==
    /\ pc = "task"
    /\ \E value \in Values, err \in {NilErr} \cup TaskErrors \cup CtxErrs(taskCtx) :
          /\ lastResult' = RecordResult(value, err, attempt)
          /\ taskErr' = err
          /\ Emit(<<(<<"ret", attempt, value, err>>)>>)
    /\ taskCtx' = "released"
    /\ pc' = "check"
    /\ UNCHANGED <<client, cfg, svc, probe, sides, calls, attempts, entry, outer, executor, attempt, maxAttempts, ctx, delay, timerFired,
                   woken, cancelledAt, returned>>

ReturnSuccessAfterShouldRetry ==
    /\ pc = "check"
    /\ taskErr = NilErr
    /\ pc' = "returned"
    /\ returned' = <<lastResult, NilErr>>
    /\ Emit(<<(<<"shouldRetry", attempt, taskErr,
                 ShouldRetry(executor.retryStrategy, attempt, taskErr)>>)>>)
    /\ UNCHANGED <<client, cfg, svc, probe, sides, calls, attempts, entry, outer, executor, attempt, maxAttempts,
                   lastResult, ctx, taskCtx, taskErr, delay, timerFired, woken, cancelledAt>>

\* if err == nil { return &lastResult, nil }
ReturnSuccess ==
    /\ pc = "check"
    /\ taskErr = NilErr
    /\ pc' = "returned"
    /\ returned' = <<lastResult, NilErr>>
    /\ UNCHANGED <<client, cfg, svc, probe, sides, calls, attempts, entry, outer, executor, attempt, maxAttempts, lastResult, ctx, taskCtx,
                   taskErr, delay, timerFired, woken, cancelledAt, log>>

\* if !ShouldRetry(attempt, err) { break }; return &lastResult, lastResult.Error
BreakLoop ==
    /\ pc = "check"
    /\ taskErr # NilErr
    /\ LET sr == ShouldRetry(executor.retryStrategy, attempt, taskErr)
       IN  /\ AfterFailure(sr, attempt, maxAttempts) = "break"
           /\ Emit(<<(<<"shouldRetry", attempt, taskErr, sr>>)>>)
    /\ pc' = "returned"
    /\ returned' = <<lastResult, lastResult.Error>>
    /\ UNCHANGED <<client, cfg, svc, probe, sides, calls, attempts, entry, outer, executor, attempt, maxAttempts, lastResult, ctx, taskCtx,
                   taskErr, delay, timerFired, woken, cancelledAt>>

\* if attempt < maxAttempts { delay := GetDelay(attempt); onRetry(...);
\* the select is entered with the timer of time.After(delay) started }
BeginWait ==
    /\ pc = "check"
    /\ taskErr # NilErr
    /\ LET sr == ShouldRetry(executor.retryStrategy, attempt, taskErr)
           d == GetDelay(executor.retryStrategy, attempt)
       IN  /\ AfterFailure(sr, attempt, maxAttempts) = "wait"
           /\ delay' = d
           /\ Emit(<<(<<"shouldRetry", attempt, taskErr, sr>>),
                     (<<"getDelay", attempt, d>>)>>
                   \o (IF executor.onRetry
                       THEN <<(<<"onRetry", attempt, taskErr, d>>)>> ELSE <<>>)
                   \o <<(<<"wait", attempt, d>>)>>)
    /\ timerFired' = FALSE
    /\ woken' = "none"
    /\ pc' = "select"
    /\ UNCHANGED <<client, cfg, svc, probe, sides, calls, attempts, entry, outer, executor, attempt, maxAttempts, lastResult, ctx, taskCtx,
                   taskErr, cancelledAt, returned>>

\* ShouldRetry true on the last allowed attempt: no wait, attempt++
SkipWait ==
    /\ pc = "check"
    /\ taskErr # NilErr
    /\ LET sr == ShouldRetry(executor.retryStrategy, attempt, taskErr)
       IN  /\ AfterFailure(sr, attempt, maxAttempts) = "next"
           /\ Emit(<<(<<"shouldRetry", attempt, taskErr, sr>>)>>)
    /\ attempt' = attempt + 1
    /\ pc' = "loop"
    /\ UNCHANGED <<client, cfg, svc, probe, sides, calls, attempts, entry, outer, executor, maxAttempts, lastResult, ctx, taskCtx, taskErr,
                   delay, timerFired, woken, cancelledAt, returned>>

\* The timer of time.After(delay) fires.  A parked select with no case
\* chosen yet is woken with the timer case.
TimerFire ==
    /\ pc \in {"select", "parked"}
    /\ ~timerFired
    /\ timerFired' = TRUE
    /\ woken' = IF pc = "parked" /\ woken = "none" THEN "timer" ELSE woken
    /\ UNCHANGED <<client, cfg, svc, probe, sides, calls, attempts, entry, outer, executor, pc, attempt, maxAttempts, lastResult, ctx, taskCtx,
                   taskErr, delay, cancelledAt, returned, log>>

\* select { case <-ctx.Done(): ... case <-time.After(delay): ... } polls its
\* channels: a ready case is chosen (any of them when both are ready),
\* otherwise the goroutine parks until one channel becomes ready.
SelectPoll ==
    /\ pc = "select"
    /\ LET ready == ReadyCases(ctx, timerFired)
       IN  IF ready = {} THEN woken' = "none" ELSE woken' \in ready
    /\ pc' = "parked"
    /\ UNCHANGED <<client, cfg, svc, probe, sides, calls, attempts, entry, outer, executor, attempt, maxAttempts, lastResult, ctx, taskCtx,
                   taskErr, delay, timerFired, cancelledAt, returned, log>>

\* case <-ctx.Done(): lastResult.Error = ctx.Err(); return &lastResult, ctx.Err()
SelectDone ==
    /\ pc = "parked"
    /\ woken = "done"
    /\ lastResult' = OverwriteError(lastResult, Canceled)
    /\ returned' = <<lastResult', Canceled>>
    /\ pc' = "returned"
    /\ UNCHANGED <<client, cfg, svc, probe, sides, calls, attempts, entry, outer, executor, attempt, maxAttempts, ctx, taskCtx, taskErr, delay,
                   timerFired, woken, cancelledAt, log>>

\* case <-time.After(delay): continue to the next attempt (attempt++)
SelectTimer ==
    /\ pc = "parked"
    /\ woken = "timer"
    /\ attempt' = attempt + 1
    /\ pc' = "loop"
    /\ UNCHANGED <<client, cfg, svc, probe, sides, calls, attempts, entry, outer, executor, maxAttempts, lastResult, ctx, taskCtx, taskErr,
                   delay, timerFired, woken, cancelledAt, returned, log>>

UnwrapKeepsValue(result, err) == <<result.Value, err>>

\* ExecuteSimple, lines 336-343: if err != nil { return zero, err };
\* return result.Value, result.Error
Unwrap(result, err) ==
    IF err # NilErr THEN <<ZeroValue, err>> ELSE <<result.Value, result.Error>>

\* Execute has returned to ExecuteSimple, which returns to its caller (the
\* two convenience functions return what ExecuteSimple returns).
ExecuteSimpleReturn ==
    /\ pc = "returned"
    /\ outer = <<>>
    /\ outer' = Unwrap(returned[1], returned[2])
    /\ UNCHANGED <<client, cfg, svc, probe, sides, calls, attempts, entry, executor, pc, attempt, maxAttempts,
                   lastResult, ctx, taskCtx, taskErr, delay, timerFired, woken,
                   cancelledAt, returned, log>>

Next ==
    \/ Begin
    \/ LoopExit
    \/ StartAttempt
    \/ TokenExpire
    \/ CancelParent
    \/ TaskReturn
    \/ ReturnSuccess
    \/ BreakLoop
    \/ BeginWait
    \/ SkipWait
    \/ TimerFire
    \/ SelectPoll
    \/ SelectDone
    \/ SelectTimer
    \/ ExecuteSimpleReturn

Spec == Init /\ [][Next]_vars

(***************************************************************************)
(* Execute under the scheduling the Go runtime gives it: a goroutine that  *)
(* can take a step eventually takes it.  The two assumptions on the        *)
(* environment are that a task invocation eventually returns and that the  *)
(* timer of a wait eventually fires.  Nothing obliges the caller to cancel *)
(* the parent or the per-attempt deadline to pass.                         *)
(***************************************************************************)
ExecuteStep ==
    \/ Begin
    \/ LoopExit
    \/ StartAttempt
    \/ ReturnSuccess
    \/ BreakLoop
    \/ BeginWait
    \/ SkipWait
    \/ SelectPoll
    \/ SelectDone
    \/ SelectTimer
    \/ ExecuteSimpleReturn

FairSpec ==
    /\ Init
    /\ [][Next]_vars
    /\ WF_vars(ExecuteStep)
    /\ WF_vars(TaskReturn)
    /\ WF_vars(TimerFire)

(***************************************************************************)
(* Concurrent calls of Execute on one Executor, config/config.go lines     *)
(* 277-333.  Each goroutine in Callers calls Execute on the same Executor. *)
(* Execute reads e.retryStrategy, e.timeoutStrategy and the callbacks and  *)
(* writes only variables it declares itself (lastResult, maxAttempts,      *)
(* attempt, timeout, taskCtx, cancel, value, err, delay), so every call    *)
(* has its own copy of those.  calls[c] holds the locals of caller c and   *)
(* attempts[AttemptSlot(c)] its loop variable.  A step of a caller is one  *)
(* stretch of Execute between two points where it can be descheduled with  *)
(* a visible effect: entering the loop, starting the task, the task's      *)
(* return with the decision that follows it, and the end of the wait.      *)
(* Each caller passes its own parent token; it is cancelled, if at all,    *)
(* during the wait.                                                        *)
(***************************************************************************)
NumCallers == 2

Callers == 1..NumCallers

\* attempt as state of the Executor: one counter for all the calls
AttemptSlotOnExecutor(c) == 1

\* attempt is declared by the for statement of the call (line 282): one per call
AttemptSlot(c) == c

AttemptOf(c) == attempts[AttemptSlot(c)]

\* The Executors the callers share
ConcEntries ==
    {Entry("ExecuteSimple", <<WithRetryStrategy(s)>>, 0, 0, 0) :
        s \in {NewFixedDelayStrategy(2, 10), CustomAlwaysRetry(2, 0),
               NewNoRetryStrategy}}

CallStart ==
    [pc |-> "idle", maxAttempts |-> 0, lastResult |-> ZeroResult,
     taskCtx |-> "none", returned |-> <<>>, log |-> <<>>]

ConcInit ==
    /\ client = <<>>
    /\ cfg = <<>>
    /\ entry \in ConcEntries
    /\ SingleCall
    /\ calls = [c \in Callers |-> CallStart]
    /\ attempts = [c \in Callers |-> 0]
    /\ sides = <<>>
    /\ probe = <<>>
    /\ svc = <<>>

SetAttempt(c, a) == attempts' = [attempts EXCEPT ![AttemptSlot(c)] = a]

\* lines 278-282: locals declared, maxAttempts read, attempt := 1
CallBegin(c) ==
    /\ calls[c].pc = "idle"
    /\ calls' = [calls EXCEPT
           ![c].pc = "loop",
           ![c].maxAttempts = GetMaxAttempts(executor.retryStrategy)]
    /\ SetAttempt(c, 1)

\* line 282 false, line 332
CallLoopExit(c) ==
    /\ calls[c].pc = "loop"
    /\ ~LoopCond(AttemptOf(c), calls[c].maxAttempts)
    /\ calls' = [calls EXCEPT
           ![c].pc = "returned",
           ![c].returned = <<calls[c].lastResult, calls[c].lastResult.Error>>]
    /\ UNCHANGED attempts

\* lines 282-293: timeout obtained, task token derived, task invoked
CallStartAttempt(c) ==
    /\ calls[c].pc = "loop"
    /\ LoopCond(AttemptOf(c), calls[c].maxAttempts)
    /\ LET timeout == GetTimeout(executor.timeoutStrategy, AttemptOf(c))
       IN calls' = [calls EXCEPT
              ![c].pc = "task",
              ![c].taskCtx = WithTimeout("live", timeout),
              ![c].log = Append(@, <<"task", AttemptOf(c), timeout>>)]
    /\ UNCHANGED attempts

\* the deadline of the caller's task token passes
CallTokenExpire(c) ==
    /\ calls[c].pc = "task"
    /\ calls[c].taskCtx = "live"
    /\ calls' = [calls EXCEPT ![c].taskCtx = "expired"]
    /\ UNCHANGED attempts

\* lines 293-329: the task returns, the result is recorded, and Execute
\* returns, breaks, starts the wait or moves on to the next attempt
CallTaskReturn(c) ==
    /\ calls[c].pc = "task"
    /\ \E value \in Values,
          err \in {NilErr, "other"} \cup CtxErrs(calls[c].taskCtx) :
        LET a      == AttemptOf(c)
            result == RecordResult(value, err, a)
            rs     == executor.retryStrategy
            after  == IF err = NilErr THEN "return"
                      ELSE AfterFailure(ShouldRetry(rs, a, err), a,
                                        calls[c].maxAttempts)
            ret    == <<"ret", a, value, err>>
        IN  /\ calls' = [calls EXCEPT
                   ![c].taskCtx = "released",
                   ![c].lastResult = result,
                   ![c].log = IF after = "wait"
                              THEN @ \o <<ret, <<"wait", a, GetDelay(rs, a)>>>>
                              ELSE Append(@, ret),
                   ![c].pc = CASE after \in {"return", "break"} -> "returned"
                               [] after = "wait" -> "wait"
                               [] OTHER -> "loop",
                   ![c].returned = IF after \in {"return", "break"}
                                   THEN <<result, err>> ELSE @]
            /\ IF after = "next" THEN SetAttempt(c, a + 1)
               ELSE UNCHANGED attempts

\* lines 325-327 and the increment of line 282
CallWaitElapsed(c) ==
    /\ calls[c].pc = "wait"
    /\ calls' = [calls EXCEPT ![c].pc = "loop"]
    /\ SetAttempt(c, AttemptOf(c) + 1)

\* lines 321-324: the caller's parent token is cancelled during the wait
CallWaitCancelled(c) ==
    /\ calls[c].pc = "wait"
    /\ LET result == OverwriteError(calls[c].lastResult, Canceled)
       IN calls' = [calls EXCEPT
              ![c].pc = "returned",
              ![c].lastResult = result,
              ![c].returned = <<result, Canceled>>]
    /\ UNCHANGED attempts

Single == <<client, cfg, svc, probe, sides, entry, outer, executor, pc, attempt, maxAttempts, lastResult, ctx,
            taskCtx, taskErr, delay, timerFired, woken, cancelledAt, returned,
            log>>

ConcNext ==
    \E c \in Callers :
        \/ CallBegin(c) /\ UNCHANGED Single
        \/ CallLoopExit(c) /\ UNCHANGED Single
        \/ CallStartAttempt(c) /\ UNCHANGED Single
        \/ CallTokenExpire(c) /\ UNCHANGED Single
        \/ CallTaskReturn(c) /\ UNCHANGED Single
        \/ CallWaitElapsed(c) /\ UNCHANGED Single
        \/ CallWaitCancelled(c) /\ UNCHANGED Single

ConcSpec == ConcInit /\ [][ConcNext]_vars

(***************************************************************************)
(* Two calls of Execute side by side, config/config.go lines 277-333: one  *)
(* on an Executor built from entry.options, one on the Executor built from *)
(* the same options followed by WithRetryCallback and WithTimeoutCallback. *)
(* Both sides are given the same input at every step: the same task        *)
(* outcome, the same expiry of the task token, the same cancellation of    *)
(* the parent token and the same end of the wait.  A side whose position   *)
(* does not accept the input stays where it is.  sides[s] holds the locals *)
(* of side s and the log of what it did.                                   *)
(***************************************************************************)
Sides == {"with", "without"}

SideExecutor(s) ==
    IF s = "with"
    THEN NewExecutor(entry.options \o <<WithRetryCallback, WithTimeoutCallback>>)
    ELSE NewExecutor(entry.options)

PairEntries ==
    {Entry("ExecuteSimple", r \o t, 0, 0, 0) :
        r \in {<<>>,
               <<WithRetryStrategy(NewFixedDelayStrategy(2, 10))>>,
               <<WithRetryStrategy(CustomAlwaysRetry(2, 0))>>,
               <<WithRetryStrategy(NewConditionalRetryStrategy(2, 1, "retryable"))>>,
               <<WithRetryStrategy(NewNoRetryStrategy)>>},
        t \in {<<>>,
               <<WithTimeoutStrategy(NewProgressiveTimeoutStrategy(1, 2, 10))>>}}

SideStart ==
    [pc |-> "idle", attempt |-> 0, maxAttempts |-> 0, lastResult |-> ZeroResult,
     ctx |-> "live", taskCtx |-> "none", returned |-> <<>>, log |-> <<>>]

PairInit ==
    /\ client = <<>>
    /\ cfg = <<>>
    /\ entry \in PairEntries
    /\ SingleCall
    /\ calls = <<>>
    /\ attempts = <<>>
    /\ sides = [s \in Sides |-> SideStart]
    /\ probe = <<>>
    /\ svc = <<>>

\* the callback sets the delay of the wait that follows it
WaitDelayFromCallback(e, a) ==
    IF e.onRetry THEN 0 ELSE GetDelay(e.retryStrategy, a)

\* lines 312-325: delay is computed before the callback, passed to it by
\* value and then used by time.After
WaitDelay(e, a) == GetDelay(e.retryStrategy, a)

\* lines 278-282
SideBegin(L, e) ==
    IF L.pc # "idle" THEN L
    ELSE [L EXCEPT !.pc = "loop",
                   !.maxAttempts = GetMaxAttempts(e.retryStrategy),
                   !.attempt = 1]

\* line 282 false, line 332
SideLoopExit(L, e) ==
    IF ~(L.pc = "loop" /\ ~LoopCond(L.attempt, L.maxAttempts)) THEN L
    ELSE [L EXCEPT !.pc = "returned",
                   !.returned = <<L.lastResult, L.lastResult.Error>>]

\* lines 282-293
SideStartAttempt(L, e) ==
    IF ~(L.pc = "loop" /\ LoopCond(L.attempt, L.maxAttempts)) THEN L
    ELSE LET timeout == GetTimeout(e.timeoutStrategy, L.attempt)
         IN [L EXCEPT
                !.pc = "task",
                !.taskCtx = WithTimeout(L.ctx, timeout),
                !.log = @ \o (IF e.onTimeout
                              THEN <<(<<"onTimeout", L.attempt, timeout>>)>>
                              ELSE <<>>)
                          \o <<(<<"task", L.attempt, timeout>>)>>]

\* the deadline of the task token passes
SideTokenExpire(L, e) ==
    IF ~(L.pc = "task" /\ L.taskCtx = "live") THEN L
    ELSE [L EXCEPT !.taskCtx = "expired"]

\* the caller cancels the parent token; a live task token goes with it
SideCancelParent(L, e) ==
    IF ~(L.ctx = "live" /\ L.pc # "returned") THEN L
    ELSE [L EXCEPT !.ctx = "canceled",
                   !.taskCtx = IF @ = "live" THEN "canceled" ELSE @]

\* lines 293-320: the task returns value, err; the result is recorded and
\* Execute returns, breaks, announces and starts the wait, or moves on
SideTaskReturn(L, e, value, err) ==
    IF ~(L.pc = "task" /\
         err \in {NilErr} \cup TaskErrors \cup CtxErrs(L.taskCtx)) THEN L
    ELSE
      LET a      == L.attempt
          result == RecordResult(value, err, a)
          rs     == e.retryStrategy
          after  == IF err = NilErr THEN "return"
                    ELSE AfterFailure(ShouldRetry(rs, a, err), a, L.maxAttempts)
          d      == WaitDelay(e, a)
          ret    == <<"ret", a, value, err>>
      IN [L EXCEPT
             !.taskCtx = "released",
             !.lastResult = result,
             !.log = IF after = "wait"
                     THEN @ \o <<ret>>
                            \o (IF e.onRetry
                                THEN <<(<<"onRetry", a, err, GetDelay(rs, a)>>)>>
                                ELSE <<>>)
                            \o <<(<<"wait", a, d>>)>>
                     ELSE Append(@, ret),
             !.pc = CASE after \in {"return", "break"} -> "returned"
                      [] after = "wait" -> "wait"
                      [] OTHER -> "loop",
             !.attempt = IF after = "next" THEN a + 1 ELSE a,
             !.returned = IF after \in {"return", "break"}
                          THEN <<result, err>> ELSE @]

\* lines 325-327 and the increment of line 282
SideWaitElapsed(L, e) ==
    IF L.pc # "wait" THEN L
    ELSE [L EXCEPT !.pc = "loop", !.attempt = @ + 1]

\* lines 321-324
SideWaitCancelled(L, e) ==
    IF ~(L.pc = "wait" /\ L.ctx = "canceled") THEN L
    ELSE LET result == OverwriteError(L.lastResult, Canceled)
         IN [L EXCEPT !.pc = "returned",
                      !.lastResult = result,
                      !.returned = <<result, Canceled>>]

SingleAndCalls == <<client, cfg, svc, probe, calls, attempts, entry, outer, executor, pc, attempt,
                    maxAttempts, lastResult, ctx, taskCtx, taskErr, delay,
                    timerFired, woken, cancelledAt, returned, log>>

PairBegin ==
    /\ sides' = [s \in Sides |-> SideBegin(sides[s], SideExecutor(s))]
    /\ sides' # sides
    /\ UNCHANGED SingleAndCalls

PairLoopExit ==
    /\ sides' = [s \in Sides |-> SideLoopExit(sides[s], SideExecutor(s))]
    /\ sides' # sides
    /\ UNCHANGED SingleAndCalls

PairStartAttempt ==
    /\ sides' = [s \in Sides |-> SideStartAttempt(sides[s], SideExecutor(s))]
    /\ sides' # sides
    /\ UNCHANGED SingleAndCalls

PairTokenExpire ==
    /\ sides' = [s \in Sides |-> SideTokenExpire(sides[s], SideExecutor(s))]
    /\ sides' # sides
    /\ UNCHANGED SingleAndCalls

PairCancelParent ==
    /\ sides' = [s \in Sides |-> SideCancelParent(sides[s], SideExecutor(s))]
    /\ sides' # sides
    /\ UNCHANGED SingleAndCalls

PairTaskReturn ==
    /\ \E value \in Values, err \in {NilErr, Canceled, DeadlineExceeded} \cup TaskErrors :
          sides' = [s \in Sides |->
                       SideTaskReturn(sides[s], SideExecutor(s), value, err)]
    /\ sides' # sides
    /\ UNCHANGED SingleAndCalls

PairWaitElapsed ==
    /\ sides' = [s \in Sides |-> SideWaitElapsed(sides[s], SideExecutor(s))]
    /\ sides' # sides
    /\ UNCHANGED SingleAndCalls

PairWaitCancelled ==
    /\ sides' = [s \in Sides |-> SideWaitCancelled(sides[s], SideExecutor(s))]
    /\ sides' # sides
    /\ UNCHANGED SingleAndCalls

PairNext ==
    \/ PairBegin
    \/ PairLoopExit
    \/ PairStartAttempt
    \/ PairTokenExpire
    \/ PairCancelParent
    \/ PairTaskReturn
    \/ PairWaitElapsed
    \/ PairWaitCancelled

PairSpec == PairInit /\ [][PairNext]_vars

(***************************************************************************)
(* The delay and timeout computations on their own,                        *)
(* executor/timeout_strategies.go lines 41-50 and 138-148.  Both compute   *)
(*   time.Duration(float64(base) * math.Pow(multiplier, float64(attempt-1)))*)
(* and then cap the result.  time.Duration is a signed integer of          *)
(* DurationBits bits (64 in Go; the model keeps the shape with fewer bits).*)
(* The float product has no such limit.  Converting a float that the       *)
(* integer type cannot hold is implementation-dependent in Go: the amd64   *)
(* build yields the smallest integer, the arm64 build the largest.         *)
(*                                                                         *)
(* probe is one strategy on one build and the results of calling its       *)
(* function for attempts 1, 2, 3, ... in turn.                             *)
(***************************************************************************)
DurationBits == 8

MaxDuration == Pow(2, DurationBits - 1) - 1

MinDuration == -Pow(2, DurationBits - 1)

Builds == {"amd64", "arm64"}

\* time.Duration(x) for a float x >= 0 with an integral value
ToDuration(build, x) ==
    IF x <= MaxDuration THEN x
    ELSE IF build = "amd64" THEN MinDuration
    ELSE MaxDuration

\* ProgressiveTimeoutStrategy.GetTimeout on a build
GetTimeoutOn(build, t, a) ==
    LET timeout == ToDuration(build, t.baseTimeout * Pow(t.multiplier, a - 1))
    IN  IF timeout > t.maxTimeout THEN t.maxTimeout ELSE timeout

\* ExponentialBackoffStrategy.GetDelay on a build
GetDelayOn(build, s, a) ==
    LET d == ToDuration(build, s.baseDelay * Pow(s.multiplier, a - 1))
    IN  IF d > s.maxDelay THEN s.maxDelay ELSE d

\* e.maxDelay = maxDelay; return e
WithMaxDelay(s, maxDelay) == [s EXCEPT !.maxDelay = maxDelay]

MaxProbeAttempt == DurationBits + 1

ProbeBases == {1, 3}

ProbeMultipliers == {1, 2, 3}

ProbeTimeoutStrategies ==
    {NewProgressiveTimeoutStrategy(b, m, x) :
        b \in ProbeBases, m \in ProbeMultipliers, x \in {10, 100}}

ProbeRetryStrategies ==
    LET made == {NewExponentialBackoffStrategy(3, b, m) :
                    b \in ProbeBases, m \in ProbeMultipliers}
    IN  made \cup {WithMaxDelay(s, 100) : s \in made}

\* The three variants whose ShouldRetry has the same body, built with the
\* same maxAttempts
ProbeVariants == {"exponential", "linear", "fixed"}

ProbeShouldRetryStrategies ==
    {[exponential |-> NewExponentialBackoffStrategy(n, 1, 2),
      linear |-> NewLinearBackoffStrategy(n, 1, 1),
      fixed |-> NewFixedDelayStrategy(n, 10)] : n \in 0..3}

\* Attempt numbers (any int) and errors given to ShouldRetry
ProbeAttempts == (0 - 1)..4

ProbeErrors == {NilErr, Canceled, DeadlineExceeded} \cup TaskErrors

\* Exponential strategies as constructed, given to an Executor
ProbeHeldStrategies ==
    {NewExponentialBackoffStrategy(3, b, m) : b \in ProbeBases, m \in ProbeMultipliers}

\* Arguments of WithMaxDelay
ProbeMaxDelays == {1, 100}

\* strategy is the strategy as constructed; held is the object that the
\* pointer kept by the caller and by an Executor's retryStrategy field
\* refers to
ProbeStart(build, fn, strategy) ==
    [build |-> build, fn |-> fn, strategy |-> strategy, held |-> strategy,
     results |-> <<>>]

ProbeInit ==
    /\ client = <<>>
    /\ cfg = <<>>
    /\ svc = <<>>
    /\ entry \in {Entry("ExecuteSimple", <<>>, 0, 0, 0)}
    /\ SingleCall
    /\ sides = <<>>
    /\ calls = <<>>
    /\ attempts = <<>>
    /\ \/ probe \in {ProbeStart(b, "GetTimeout", t) :
                        b \in Builds, t \in ProbeTimeoutStrategies}
       \/ probe \in {ProbeStart(b, "GetDelay", s) :
                        b \in Builds, s \in ProbeRetryStrategies}
       \/ probe \in {ProbeStart(b, "ShouldRetry", t) :
                        b \in Builds, t \in ProbeShouldRetryStrategies}
       \/ probe \in {ProbeStart(b, "WithMaxDelay", s) :
                        b \in Builds, s \in ProbeHeldStrategies}

NotProbe == <<client, cfg, svc, sides, calls, attempts, entry, outer, executor, pc, attempt,
              maxAttempts, lastResult, ctx, taskCtx, taskErr, delay,
              timerFired, woken, cancelledAt, returned, log>>

\* strategy.GetTimeout(attempt) for the next attempt number
CallGetTimeout ==
    /\ probe.fn = "GetTimeout"
    /\ Len(probe.results) < MaxProbeAttempt
    /\ probe' = [probe EXCEPT !.results =
                    Append(@, GetTimeoutOn(probe.build, probe.strategy, Len(@) + 1))]
    /\ UNCHANGED NotProbe

\* strategy.GetDelay(attempt) for the next attempt number
CallGetDelay ==
    /\ probe.fn = "GetDelay"
    /\ Len(probe.results) < MaxProbeAttempt
    /\ probe' = [probe EXCEPT !.results =
                    Append(@, GetDelayOn(probe.build, probe.strategy, Len(@) + 1))]
    /\ UNCHANGED NotProbe

\* ShouldRetry(attempt, err) of the exponential, the linear and the
\* fixed-delay strategy on one input
CallShouldRetry ==
    /\ probe.fn = "ShouldRetry"
    /\ probe.results = <<>>
    /\ \E a \in ProbeAttempts, err \in ProbeErrors :
          probe' = [probe EXCEPT !.results =
                       <<[attempt |-> a, err |-> err,
                          answers |-> [v \in ProbeVariants |->
                                          ShouldRetry(probe.strategy[v], a, err)]]>>]
    /\ UNCHANGED NotProbe

\* s.WithMaxDelay(maxDelay) called through the pointer the caller kept:
\* e.maxDelay = maxDelay; return e
CallWithMaxDelay ==
    /\ probe.fn = "WithMaxDelay"
    /\ \E maxDelay \in ProbeMaxDelays :
          probe' = [probe EXCEPT !.held = WithMaxDelay(@, maxDelay)]
    /\ probe' # probe
    /\ UNCHANGED NotProbe

\* The Executor holding the strategy computes the delay after its next
\* failed attempt: executor.retryStrategy.GetDelay(attempt), attempt < maxAttempts
ExecutorGetDelay ==
    /\ probe.fn = "WithMaxDelay"
    /\ Len(probe.results) + 1 < GetMaxAttempts(probe.held)
    /\ probe' = [probe EXCEPT !.results =
                    Append(@, GetDelayOn(probe.build, probe.held, Len(@) + 1))]
    /\ UNCHANGED NotProbe

ProbeNext ==
    \/ CallGetTimeout
    \/ CallGetDelay
    \/ CallShouldRetry
    \/ CallWithMaxDelay
    \/ ExecutorGetDelay

ProbeSpec == ProbeInit /\ [][ProbeNext]_vars

(***************************************************************************)
(* ddns.Service.UpdateIP, ddns/service.go lines 193-221, on a provider and *)
(* an IP detector.  The provider is the MockProvider of providers/mock.go  *)
(* (a map of records keyed by "domain:recordType" and a shouldFail switch) *)
(* or the DuckDNS provider, whose GetCurrentRecord always fails and whose  *)
(* UpdateRecord succeeds or fails with the remote service.  svc holds the  *)
(* provider, the detector, and for the last call of UpdateIP the records   *)
(* before it, the provider and detector calls it made and what it          *)
(* returned.                                                               *)
(***************************************************************************)
IPs == {"203.0.113.1", "203.0.113.2", "203.0.113.3"}

NoRecord == "absent"

\* s.config.Domain + ":" + s.config.RecordType, and some other record
CfgKey == <<"example.com", "A">>

OtherKey == <<"other.example", "A">>

Keys == {CfgKey, OtherKey}

NilResponse == "nil"

UpToDateMessage == "Record already up to date"

\* IPDetector.GetPublicIP: <<ip, err>>
GetPublicIP(detector) ==
    IF detector.shouldFail THEN <<"", "IP detection failed">>
    ELSE <<detector.ip, NilErr>>

\* Provider.GetCurrentRecord: <<value, err>>
GetCurrentRecord(p, key) ==
    CASE p.kind = "duckdns" ->
            <<"", "DuckDNS does not support querying current records">>
      [] p.shouldFail -> <<"", "mock provider configured to fail">>
      [] p.records[key] # NoRecord -> <<p.records[key], NilErr>>
      [] OTHER -> <<"", "record not found">>

UpdateRecordNoStore(p, key, value, remoteOk) ==
    CASE p.kind = "duckdns" /\ remoteOk ->
            [provider |-> [p EXCEPT !.records[key] = value],
             ret |-> <<[Success |-> TRUE,
                        Message |-> "DuckDNS record updated successfully"], NilErr>>]
      [] p.kind = "duckdns" ->
            [provider |-> p,
             ret |-> <<NilResponse, "DuckDNS update failed">>]
      [] p.shouldFail ->
            [provider |-> p,
             ret |-> <<NilResponse, "mock provider configured to fail">>]
      [] OTHER ->
            [provider |-> p,
             ret |-> <<[Success |-> TRUE, Message |-> "Mock update successful"],
                       NilErr>>]

\* Provider.UpdateRecord: the provider afterwards and <<response, err>>.
\* remoteOk is the outcome of the DuckDNS request ("OK" or not).
UpdateRecord(p, key, value, remoteOk) ==
    CASE p.kind = "duckdns" /\ remoteOk ->
            [provider |-> [p EXCEPT !.records[key] = value],
             ret |-> <<[Success |-> TRUE,
                        Message |-> "DuckDNS record updated successfully"], NilErr>>]
      [] p.kind = "duckdns" ->
            [provider |-> p,
             ret |-> <<NilResponse, "DuckDNS update failed">>]
      [] p.shouldFail ->
            [provider |-> p,
             ret |-> <<NilResponse, "mock provider configured to fail">>]
      [] OTHER ->
            [provider |-> [p EXCEPT !.records[key] = value],
             ret |-> <<[Success |-> TRUE, Message |-> "Mock update successful"],
                       NilErr>>]

\* line 196 taken as "carry on": a failed detection goes on to the provider
DetectionFailedCarryOn(err) == FALSE

\* if err != nil { return nil, err }
DetectionFailed(err) == err # NilErr

UpToDateNever(err, existingRecord, currentIP) == FALSE

UpToDateWhenReadable(err, existingRecord, currentIP) == err = NilErr

\* if err == nil && existingRecord == currentIP
UpToDate(err, existingRecord, currentIP) ==
    err = NilErr /\ existingRecord = currentIP

\* UpdateIP on provider p with the detector: the provider afterwards, the
\* calls made in order, and the returned pair
UpdateIPResult(p, detector, remoteOk) ==
    LET detected == GetPublicIP(detector)
        currentIP == detected[1]
        existing == GetCurrentRecord(p, CfgKey)
        updated == UpdateRecord(p, CfgKey, currentIP, remoteOk)
        opDetect == <<"GetPublicIP">>
        opGet == <<"GetCurrentRecord", CfgKey>>
        opUpdate == <<"UpdateRecord", CfgKey, currentIP>>
    IN  IF DetectionFailed(detected[2])
        THEN [provider |-> p, ops |-> <<opDetect>>,
              ret |-> <<NilResponse, detected[2]>>]
        ELSE IF UpToDate(existing[2], existing[1], currentIP)
        THEN [provider |-> p, ops |-> <<opDetect, opGet>>,
              ret |-> <<[Success |-> TRUE, Message |-> UpToDateMessage], NilErr>>]
        ELSE [provider |-> updated.provider,
              ops |-> <<opDetect, opGet, opUpdate>>,
              ret |-> updated.ret]

Detectors ==
    {[ip |-> ip, shouldFail |-> FALSE] : ip \in IPs}
    \cup {[ip |-> "", shouldFail |-> TRUE]}

\* NewMockProvider: empty map; the DuckDNS account holds any record
Providers ==
    {[kind |-> "mock", shouldFail |-> FALSE, records |-> [k \in Keys |-> NoRecord]]}
    \cup {[kind |-> "duckdns", shouldFail |-> FALSE,
           records |-> [k \in Keys |-> IF k = CfgKey THEN v ELSE NoRecord]] :
             v \in IPs \cup {NoRecord}}

NoCall == [before |-> <<>>, ops |-> <<>>, ret |-> <<>>, detector |-> <<>>]

ServiceInit ==
    /\ client = <<>>
    /\ cfg = <<>>
    /\ entry \in {Entry("ExecuteSimple", <<>>, 0, 0, 0)}
    /\ SingleCall
    /\ probe = <<>>
    /\ sides = <<>>
    /\ calls = <<>>
    /\ attempts = <<>>
    /\ svc \in {[provider |-> p, detector |-> dt, last |-> NoCall, prev |-> NoCall] :
                   p \in Providers, dt \in Detectors}

NotService == <<client, cfg, probe, sides, calls, attempts, entry, outer, executor, pc,
                attempt, maxAttempts, lastResult, ctx, taskCtx, taskErr, delay,
                timerFired, woken, cancelledAt, returned, log>>

\* service.UpdateIP(ctx).  last is this call, prev the call before it when
\* nothing else touched the provider or the detector in between.
UpdateIP ==
    /\ \E remoteOk \in BOOLEAN :
          LET r == UpdateIPResult(svc.provider, svc.detector, remoteOk)
          IN  svc' = [svc EXCEPT
                         !.provider = r.provider,
                         !.last = [before |-> svc.provider.records,
                                   ops |-> r.ops, ret |-> r.ret,
                                   detector |-> svc.detector],
                         !.prev = svc.last]
    /\ UNCHANGED NotService

\* MockProvider.SetRecord(domain, recordType, value)
SetRecord ==
    /\ svc.provider.kind = "mock"
    /\ \E k \in Keys, v \in IPs :
          svc' = [svc EXCEPT !.provider.records[k] = v, !.last = NoCall,
                             !.prev = NoCall]
    /\ UNCHANGED NotService

\* MockProvider.WithFailure(shouldFail)
WithFailure ==
    /\ svc.provider.kind = "mock"
    /\ \E b \in BOOLEAN :
          svc' = [svc EXCEPT !.provider.shouldFail = b, !.last = NoCall,
                             !.prev = NoCall]
    /\ UNCHANGED NotService

\* the public address changes, or detection starts or stops failing
DetectorChange ==
    /\ \E dt \in Detectors \ {svc.detector} :
          svc' = [svc EXCEPT !.detector = dt, !.last = NoCall, !.prev = NoCall]
    /\ UNCHANGED NotService

ServiceNext ==
    \/ UpdateIP
    \/ SetRecord
    \/ WithFailure
    \/ DetectorChange

ServiceSpec == ServiceInit /\ [][ServiceNext]_vars

(***************************************************************************)
(* The config package, config/config.go lines 73-185: Load reads the JSON  *)
(* file, falls back to the environment when that fails, and validates.     *)
(* Of a Config only the four fields Validate reads are kept.  cfg is one   *)
(* call of Validate on a Config, or of Load on a file and an environment,  *)
(* and what it returned.                                                   *)
(***************************************************************************)
MinPort == 1

MaxPort == 65535

DefaultPort == 8080

DefaultMaxRetries == 3

MakeConfig(domain, apiKey, port, maxRetries) ==
    [Domain |-> domain, APIKey |-> apiKey, Port |-> port, MaxRetries |-> maxRetries]

\* config := &Config{}
ZeroConfig == MakeConfig("", "", 0, 0)

ValidateNoUpperPort(c) ==
    IF c.Domain = "" THEN "DDNS domain is required"
    ELSE IF c.APIKey = "" THEN "DDNS API key is required"
    ELSE IF c.Port < MinPort THEN "server port must be between 1 and 65535"
    ELSE IF c.MaxRetries < 0 THEN "HTTP max retries cannot be negative"
    ELSE NilErr

\* Config.Validate: the error returned, NilErr for nil
Validate(c) ==
    IF c.Domain = "" THEN "DDNS domain is required"
    ELSE IF c.APIKey = "" THEN "DDNS API key is required"
    ELSE IF c.Port < MinPort \/ c.Port > MaxPort
         THEN "server port must be between 1 and 65535"
    ELSE IF c.MaxRetries < 0 THEN "HTTP max retries cannot be negative"
    ELSE NilErr

\* strconv.Atoi on the strings the environments use: <<value, ok>>
Atoi(str) ==
    CASE str = "0" -> <<0, TRUE>>
      [] str = "-1" -> <<-1, TRUE>>
      [] str = "5" -> <<5, TRUE>>
      [] str = "9090" -> <<9090, TRUE>>
      [] str = "65536" -> <<65536, TRUE>>
      [] OTHER -> <<0, FALSE>>

\* getEnv: an unset variable reads as ""
GetEnv(value, fallback) == IF value # "" THEN value ELSE fallback

GetEnvAsInt(value, fallback) ==
    IF value # "" /\ Atoi(value)[2] THEN Atoi(value)[1] ELSE fallback

\* loadFromEnvironment assigns config.Server, config.DDNS and config.HTTP
LoadFromEnvironment(config, env) ==
    MakeConfig(GetEnv(env.DDNS_DOMAIN, ""), GetEnv(env.DDNS_API_KEY, ""),
               GetEnvAsInt(env.SERVER_PORT, DefaultPort),
               GetEnvAsInt(env.HTTP_MAX_RETRIES, DefaultMaxRetries))

\* loadFromJSON: the config afterwards and the error.  A file that fails to
\* parse may have filled part of the config before the error.
LoadFromJSON(config, file) ==
    CASE file.state = "missing" -> <<config, "failed to read config file">>
      [] file.state = "invalid" -> <<file.content, "failed to parse config file">>
      [] OTHER -> <<file.content, NilErr>>

NilConfig == <<>>

\* Load: <<config, err>>
Load(file, env) ==
    LET json == LoadFromJSON(ZeroConfig, file)
        config == IF json[2] # NilErr THEN LoadFromEnvironment(json[1], env)
                  ELSE json[1]
    IN  IF Validate(config) # NilErr
        THEN <<NilConfig, "config validation failed">>
        ELSE <<config, NilErr>>

Configs ==
    {MakeConfig(dm, k, p, r) :
        dm \in {"", "example.com"}, k \in {"", "test-key"},
        p \in {0, MinPort, DefaultPort, MaxPort, MaxPort + 1},
        r \in {-1, 0, DefaultMaxRetries}}

Environments ==
    [DDNS_DOMAIN : {"", "custom.com"}, DDNS_API_KEY : {"", "custom-key"},
     SERVER_PORT : {"", "abc", "0", "9090", "65536"},
     HTTP_MAX_RETRIES : {"", "-1", "5"}]

Files ==
    {[state |-> "missing", content |-> ZeroConfig]}
    \cup {[state |-> "invalid", content |-> c] :
             c \in {ZeroConfig, MakeConfig("example.com", "", 0, 0),
                    MakeConfig("example.com", "test-key", DefaultPort, 0)}}
    \cup {[state |-> "valid", content |-> c] : c \in Configs}

NoEnv == [DDNS_DOMAIN |-> "", DDNS_API_KEY |-> "", SERVER_PORT |-> "",
          HTTP_MAX_RETRIES |-> ""]

NotCalled == <<>>

ConfigInit ==
    /\ client = <<>>
    /\ entry \in {Entry("ExecuteSimple", <<>>, 0, 0, 0)}
    /\ SingleCall
    /\ svc = <<>>
    /\ probe = <<>>
    /\ sides = <<>>
    /\ calls = <<>>
    /\ attempts = <<>>
    /\ \/ cfg \in {[fn |-> "Validate", config |-> c, file |-> f, env |-> NoEnv,
                    result |-> NotCalled] :
                       c \in Configs,
                       f \in {[state |-> "missing", content |-> ZeroConfig]}}
       \/ cfg \in {[fn |-> "Load", config |-> ZeroConfig, file |-> f, env |-> e,
                    result |-> NotCalled] :
                       f \in Files, e \in Environments}

NotConfig == <<client, svc, probe, sides, calls, attempts, entry, outer, executor, pc,
               attempt, maxAttempts, lastResult, ctx, taskCtx, taskErr, delay,
               timerFired, woken, cancelledAt, returned, log>>

\* err := config.Validate()
CallValidate ==
    /\ cfg.fn = "Validate"
    /\ cfg.result = NotCalled
    /\ cfg' = [cfg EXCEPT !.result = <<cfg.config, Validate(cfg.config)>>]
    /\ UNCHANGED NotConfig

\* config, err := Load()
CallLoad ==
    /\ cfg.fn = "Load"
    /\ cfg.result = NotCalled
    /\ cfg' = [cfg EXCEPT !.result = Load(cfg.file, cfg.env)]
    /\ UNCHANGED NotConfig

ConfigNext ==
    \/ CallValidate
    \/ CallLoad

ConfigSpec == ConfigInit /\ [][ConfigNext]_vars

(***************************************************************************)
(* The DDNS client, main.go lines 76-136: runDDNSClient with its ticker,   *)
(* the shutdown goroutine of setupGracefulShutdown, and performDDNSUpdate. *)
(* client.events lists the calls of performDDNSUpdate: <<"start", state of *)
(* mainCtx when called>> and <<"end", outcome>>.                           *)
(***************************************************************************)
MaxTicks == 3

\* Outcomes of performDDNSUpdate (it only logs them)
UpdateOutcomes == {"updated", "failed"}

\* runDDNSClient after setupGracefulShutdown() and time.NewTicker(updateInterval)
ClientStart ==
    [pc |-> "initial", mainCtx |-> "live", sigChan |-> "empty", tick |-> FALSE,
     ticks |-> 0, events |-> <<>>]

ClientInit ==
    /\ client = ClientStart
    /\ cfg = <<>>
    /\ svc = <<>>
    /\ probe = <<>>
    /\ sides = <<>>
    /\ calls = <<>>
    /\ attempts = <<>>
    /\ entry \in {Entry("ExecuteSimple", <<>>, 0, 0, 0)}
    /\ SingleCall

NotClient == <<cfg, svc, probe, sides, calls, attempts, entry, outer, executor, pc,
               attempt, maxAttempts, lastResult, ctx, taskCtx, taskErr, delay,
               timerFired, woken, cancelledAt, returned, log>>

\* The cases of the select of the loop that are ready; Go chooses among
\* ready cases at random
ClientReadyCases(c) ==
    (IF c.mainCtx = "canceled" THEN {"done"} ELSE {})
    \cup (IF c.tick THEN {"tick"} ELSE {})

\* line 124: performDDNSUpdate(mainCtx, service), the initial update
PerformInitialUpdate ==
    /\ client.pc = "initial"
    /\ client' = [client EXCEPT !.pc = "updating",
                                !.events = Append(@, <<"start", client.mainCtx>>)]
    /\ UNCHANGED NotClient

\* performDDNSUpdate returns (UpdateIP ran under the 2 minute timeout)
PerformDDNSUpdateReturn ==
    /\ client.pc = "updating"
    /\ \E outcome \in UpdateOutcomes :
          client' = [client EXCEPT !.pc = "select",
                                   !.events = Append(@, <<"end", outcome>>)]
    /\ UNCHANGED NotClient

\* The ticker fires: a tick is put in ticker.C (capacity 1), or dropped when
\* one is already there.  The ticker is stopped when runDDNSClient returns.
TickerTick ==
    /\ client.pc # "returned"
    /\ client.ticks < MaxTicks
    /\ client' = [client EXCEPT !.tick = TRUE, !.ticks = @ + 1]
    /\ UNCHANGED NotClient

\* SIGINT or SIGTERM is delivered to sigChan
ShutdownSignal ==
    /\ client.sigChan = "empty"
    /\ client' = [client EXCEPT !.sigChan = "signal"]
    /\ UNCHANGED NotClient

\* The goroutine of setupGracefulShutdown: <-sigChan; mainCancel()
MainCancel ==
    /\ client.sigChan = "signal"
    /\ client' = [client EXCEPT !.sigChan = "received", !.mainCtx = "canceled"]
    /\ UNCHANGED NotClient

\* case <-mainCtx.Done(): return
SelectMainCtxDone ==
    /\ client.pc = "select"
    /\ "done" \in ClientReadyCases(client)
    /\ client' = [client EXCEPT !.pc = "returned"]
    /\ UNCHANGED NotClient

\* case <-ticker.C: performDDNSUpdate(mainCtx, service)
SelectTickerC ==
    /\ client.pc = "select"
    /\ "tick" \in ClientReadyCases(client)
    /\ client' = [client EXCEPT !.pc = "updating", !.tick = FALSE,
                                !.events = Append(@, <<"start", client.mainCtx>>)]
    /\ UNCHANGED NotClient

ClientNext ==
    \/ PerformInitialUpdate
    \/ PerformDDNSUpdateReturn
    \/ TickerTick
    \/ ShutdownSignal
    \/ MainCancel
    \/ SelectMainCtxDone
    \/ SelectTickerC

ClientSpec == ClientInit /\ [][ClientNext]_vars

TypeOK ==
    /\ pc \in {"idle", "loop", "task", "check", "select", "parked", "returned"}
    /\ attempt \in 0..(MaxAttemptsBound + 1)
    /\ ctx \in {"live", "canceled"}
    /\ taskCtx \in {"none", "live", "expired", "canceled", "released"}
    /\ woken \in {"none", "done", "timer"}

(***************************************************************************)
(* Reading the log.                                                        *)
(***************************************************************************)
Events(kind) == {i \in DOMAIN log : log[i][1] = kind}

Count(kind) == Cardinality(Events(kind))

HasRet(k) == \E i \in Events("ret") : log[i][2] = k

\* The error / value the task returned on attempt k ("absent" before it did)
RetErrAt(k) ==
    IF HasRet(k) THEN log[CHOOSE i \in Events("ret") : log[i][2] = k][4] ELSE "absent"

RetValueAt(k) ==
    IF HasRet(k) THEN log[CHOOSE i \in Events("ret") : log[i][2] = k][3] ELSE "absent"

AllAttemptsFailed == \A i \in Events("ret") : log[i][4] # NilErr

\* Number of the last task invocation started, 0 when there was none
LastStarted ==
    IF Events("task") = {} THEN 0
    ELSE log[CHOOSE i \in Events("task") : \A j \in Events("task") : j <= i][2]

\* Events of Execute itself, without those of its environment
IsCallEvent(e) == e[1] \notin {"cancel", "expire"}

CallLog == SelectSeq(log, IsCallEvent)

HasReturned == pc = "returned"

Result == returned[1]

ReturnedErr == returned[2]

NoCancel == cancelledAt = "never"

NoTaskAfterCancel ==
    \A c \in Events("cancel") : \A i \in Events("task") : i < c

Kind == executor.retryStrategy.kind

\* maxAttempts as given to the strategy's constructor
ConfiguredAttempts == executor.retryStrategy.maxAttempts

(***************************************************************************)
(* C1: one call of Execute invokes the task at most GetMaxAttempts()       *)
(* times, for every retry strategy, including a custom one whose           *)
(* ShouldRetry always returns true.                                        *)
(***************************************************************************)
C1_AtMostMaxAttempts ==
    Count("task") <= GetMaxAttempts(executor.retryStrategy)

C1_Witness ==
    /\ HasReturned
    /\ Kind = "custom"
    /\ GetMaxAttempts(executor.retryStrategy) = 2
    /\ Count("task") = 2
    /\ Count("shouldRetry") = 2

(***************************************************************************)
(* C2: whenever Execute returns a Result whose Error is nil, Value is the  *)
(* value of the task invocation that returned nil, Attempt is the number   *)
(* of that invocation, and that invocation's return is the last thing      *)
(* Execute did: no task invocation, ShouldRetry call, onRetry callback or  *)
(* wait follows it.                                                        *)
(***************************************************************************)
C2_SuccessIsTaskOutput ==
    (HasReturned /\ Result.Error = NilErr) =>
        /\ Len(CallLog) >= 1
        /\ CallLog[Len(CallLog)][1] = "ret"
        /\ CallLog[Len(CallLog)] = <<"ret", Result.Attempt, Result.Value, NilErr>>
        /\ Result.Attempt = LastStarted

(***************************************************************************)
(* C3: whenever Execute returns a Result whose Error is non-nil, Attempt   *)
(* is the number of the last task invocation started in this call.         *)
(***************************************************************************)
C3_FailureAttemptIsLast ==
    (HasReturned /\ Result.Error # NilErr) =>
        /\ Result.Attempt = LastStarted
        /\ Result.Attempt = Count("task")

C3_Witness ==
    /\ HasReturned
    /\ Result.Error = Canceled
    /\ cancelledAt = "parked"
    /\ Result.Attempt = 1
    /\ Count("task") = 1

(***************************************************************************)
(* C4: with the parent never cancelled, under a Fixed-delay strategy a     *)
(* task that fails on attempts 1..k-1 and succeeds on attempt k <=         *)
(* maxAttempts makes Execute return error nil, the success value and       *)
(* Attempt = k after exactly k task invocations.  Execute does not give    *)
(* up before attempt k: it returns a failure only from attempt             *)
(* maxAttempts.                                                            *)
(***************************************************************************)
C4_SucceedsOnKth ==
    (HasReturned /\ NoCancel /\ Kind = "fixed" /\ ConfiguredAttempts >= 1) =>
        /\ Count("task") >= 1
        /\ RetErrAt(Count("task")) # NilErr => Count("task") = ConfiguredAttempts
        /\ \A k \in 1..ConfiguredAttempts :
              ((\A j \in 1..(k - 1) : RetErrAt(j) \notin {NilErr, "absent"})
                  /\ RetErrAt(k) = NilErr) =>
                 /\ Result = [Value |-> RetValueAt(k), Error |-> NilErr, Attempt |-> k]
                 /\ ReturnedErr = NilErr
                 /\ Count("task") = k

C4_Witness ==
    /\ HasReturned
    /\ NoCancel
    /\ Kind = "fixed"
    /\ RetErrAt(1) \in TaskErrors
    /\ RetErrAt(2) = NilErr
    /\ Result = [Value |-> 1, Error |-> NilErr, Attempt |-> 2]

(***************************************************************************)
(* C5: with the parent never cancelled, a task that always fails under     *)
(* Fixed-delay(n, d), n >= 1, makes Execute return a non-nil error with    *)
(* Attempt = n after exactly n task invocations and n-1 waits; a           *)
(* configured onRetry callback is invoked exactly n-1 times, once after    *)
(* each of attempts 1..n-1 and before the next attempt, never after        *)
(* attempt n.                                                              *)
(***************************************************************************)
C5_AlwaysFailingRunsN ==
    (HasReturned /\ NoCancel /\ Kind = "fixed" /\ ConfiguredAttempts >= 1
        /\ AllAttemptsFailed) =>
        /\ Result.Error # NilErr
        /\ ReturnedErr = Result.Error
        /\ Result.Attempt = ConfiguredAttempts
        /\ Count("task") = ConfiguredAttempts
        /\ Count("wait") = ConfiguredAttempts - 1
        /\ Count("onRetry") = IF executor.onRetry THEN ConfiguredAttempts - 1 ELSE 0
        /\ \A i \in Events("onRetry") :
              /\ log[i][2] \in 1..(ConfiguredAttempts - 1)
              /\ \E r \in Events("ret") : r < i /\ log[r][2] = log[i][2]
              /\ \E t \in Events("task") : i < t /\ log[t][2] = log[i][2] + 1
              /\ \A j \in Events("onRetry") : log[j][2] = log[i][2] => j = i

C5_Witness ==
    /\ HasReturned
    /\ NoCancel
    /\ Kind = "fixed"
    /\ ConfiguredAttempts = 2
    /\ executor.onRetry
    /\ AllAttemptsFailed
    /\ Count("onRetry") = 1
    /\ Result.Attempt = 2

(***************************************************************************)
(* C6: under the No-retry strategy a failing task is invoked exactly       *)
(* once: Execute returns the task's error with Attempt = 1, GetDelay is    *)
(* never consulted, no onRetry callback fires and no delay is waited.      *)
(***************************************************************************)
C6_NoRetryRunsOnce ==
    Kind = "none" =>
        /\ Count("task") <= 1
        /\ Count("getDelay") = 0
        /\ Count("onRetry") = 0
        /\ Count("wait") = 0
        /\ (HasReturned /\ RetErrAt(1) # NilErr) =>
              /\ Count("task") = 1
              /\ Result.Error = RetErrAt(1)
              /\ ReturnedErr = RetErrAt(1)
              /\ Result.Attempt = 1

C6_Witness ==
    /\ HasReturned
    /\ Kind = "none"
    /\ RetErrAt(1) \in TaskErrors
    /\ ReturnedErr = RetErrAt(1)
    /\ Count("shouldRetry") = 1

(***************************************************************************)
(* C7: when the parent is cancelled while Execute is parked in the         *)
(* inter-attempt wait after failed attempt k (the delay has not elapsed),  *)
(* Execute returns without starting attempt k+1, and both the returned     *)
(* error and Result.Error are the parent's cancellation error, not the     *)
(* error of attempt k.                                                     *)
(***************************************************************************)
C7_CancelDuringWait ==
    cancelledAt = "parked" =>
        /\ pc \in {"parked", "returned"}
        /\ NoTaskAfterCancel
        /\ LastStarted = attempt
        /\ HasReturned =>
              /\ ReturnedErr = Canceled
              /\ Result.Error = Canceled
              /\ Result.Error # RetErrAt(attempt)
              /\ Result.Attempt = attempt

C7_Witness ==
    /\ HasReturned
    /\ cancelledAt = "parked"
    /\ RetErrAt(1) \in TaskErrors
    /\ attempt = 1
    /\ ReturnedErr = Canceled

(***************************************************************************)
(* C8: cancelling the parent token at any point of an invocation           *)
(* terminates it with a cancellation error, and no task attempt is         *)
(* started after the cancellation.                                         *)
(***************************************************************************)
C8_CancelAlwaysTerminal ==
    /\ NoTaskAfterCancel
    /\ (HasReturned /\ ~NoCancel) =>
          /\ ReturnedErr = Canceled
          /\ Result.Error = Canceled

(***************************************************************************)
(* C9: a cancellation error is never passed to ShouldRetry.                *)
(***************************************************************************)
C9_CancelNeverToShouldRetry ==
    \A i \in Events("shouldRetry") : log[i][3] # Canceled

(***************************************************************************)
(* C10: expiry of the per-attempt token ends only that attempt.  The       *)
(* timeout error is passed to ShouldRetry like any other error; expiry     *)
(* does not cancel the parent; a built-in backoff strategy retries it      *)
(* while attempt < maxAttempts, so with the parent not cancelled Execute   *)
(* returns a timeout only from the last allowed attempt; the next attempt  *)
(* starts with a fresh live token; a task that times out on attempt 1 and  *)
(* succeeds on attempt 2 yields a successful Result with Attempt = 2.      *)
(***************************************************************************)
C10_TimeoutIsLocal ==
    /\ \A i \in 1..Len(CallLog) :
          (CallLog[i][1] = "ret" /\ CallLog[i][4] = DeadlineExceeded) =>
             /\ i = Len(CallLog) => pc = "check"
             /\ i < Len(CallLog) =>
                   /\ CallLog[i + 1][1] = "shouldRetry"
                   /\ CallLog[i + 1][2] = CallLog[i][2]
                   /\ CallLog[i + 1][3] = DeadlineExceeded
    /\ NoCancel => ctx = "live"
    /\ (HasReturned /\ NoCancel /\ Kind \in {"fixed", "linear", "exponential"}
           /\ RetErrAt(Count("task")) = DeadlineExceeded) =>
          Count("task") = ConfiguredAttempts
    /\ (pc = "task" /\ ctx = "live" /\ log[Len(log)][1] = "task") => taskCtx = "live"
    /\ (HasReturned /\ RetErrAt(1) = DeadlineExceeded /\ RetErrAt(2) = NilErr) =>
          /\ Result = [Value |-> RetValueAt(2), Error |-> NilErr, Attempt |-> 2]
          /\ ReturnedErr = NilErr

C10_Witness ==
    /\ HasReturned
    /\ RetErrAt(1) = DeadlineExceeded
    /\ RetErrAt(2) = NilErr
    /\ Result.Attempt = 2
    /\ Result.Error = NilErr
    /\ ctx = "live"

(***************************************************************************)
(* C11: under No-retry and a fixed timeout, the token given to the task    *)
(* carries a pending deadline, and a task that honours it (returns the     *)
(* token's error once the deadline has passed) makes Execute return        *)
(* DeadlineExceeded with Attempt = 1; the caller of ExecuteSimple gets the *)
(* zero value with that error, never a success value.                      *)
(***************************************************************************)
C11_TimeoutEndsSlowTask ==
    (Kind = "none" /\ executor.timeoutStrategy.kind = "fixed") =>
        /\ (pc = "task" /\ ctx = "live" /\ Count("expire") = 0) => taskCtx = "live"
        /\ (HasReturned /\ NoCancel /\ RetErrAt(1) = DeadlineExceeded) =>
              /\ Count("expire") = 1
              /\ Count("task") = 1
              /\ Result.Error = DeadlineExceeded
              /\ ReturnedErr = DeadlineExceeded
              /\ Result.Attempt = 1
              /\ Result.Value = RetValueAt(1)
              /\ outer # <<>> => outer = <<ZeroValue, DeadlineExceeded>>

C11_Witness ==
    /\ Kind = "none"
    /\ executor.timeoutStrategy.kind = "fixed"
    /\ NoCancel
    /\ Count("expire") = 1
    /\ outer = <<ZeroValue, DeadlineExceeded>>
    /\ Result.Attempt = 1

(***************************************************************************)
(* C12: provided every task invocation eventually returns and every timer  *)
(* eventually fires, every call of Execute eventually returns, and it      *)
(* returns once: what it returned never changes afterwards and no further  *)
(* event of the call happens.                                              *)
(***************************************************************************)
C12_ReturnsExactlyOnce ==
    /\ <>HasReturned
    /\ [][HasReturned => (HasReturned' /\ returned' = returned /\ log' = log)]_vars

C12_Witness ==
    /\ HasReturned
    /\ Count("wait") >= 1
    /\ Count("task") >= 2
    /\ returned # <<>>

(***************************************************************************)
(* C13: Execute never reports success without having run the task: a nil   *)
(* returned error implies at least one task invocation and Attempt >= 1.   *)
(***************************************************************************)
C13_NoSuccessWithoutRun ==
    (HasReturned /\ ReturnedErr = NilErr) =>
        /\ Count("task") >= 1
        /\ Result.Attempt >= 1

(***************************************************************************)
(* C14: GetMaxAttempts() returns a value >= 1 for every strategy variant   *)
(* and constructor argument, and exactly 1 for No-retry.                   *)
(***************************************************************************)
C14_MaxAttemptsAtLeastOne ==
    pc # "idle" =>
        /\ maxAttempts >= 1
        /\ Kind = "none" => maxAttempts = 1

C16_ExecuteWithTimeout ==
    entry.fn = "ExecuteWithTimeout" =>
        /\ executor = [retryStrategy |-> NewNoRetryStrategy,
                       timeoutStrategy |-> NewFixedTimeoutStrategy(entry.timeout),
                       onRetry |-> FALSE, onTimeout |-> FALSE]
        /\ Count("task") <= 1
        /\ \A i \in Events("task") : log[i][2] = 1 /\ log[i][3] = entry.timeout
        /\ Count("wait") = 0
        /\ HasReturned => Count("task") = 1
        /\ outer # <<>> =>
              outer = IF RetErrAt(1) = NilErr THEN <<RetValueAt(1), NilErr>>
                      ELSE <<ZeroValue, RetErrAt(1)>>

C16_Witness ==
    /\ entry.fn = "ExecuteWithTimeout"
    /\ Count("task") = 1
    /\ outer = <<1, NilErr>>

(***************************************************************************)
(* C17: ExecuteSimple returns (Result.Value, nil) when Execute succeeds    *)
(* and the zero value with the error when Execute fails, never the value   *)
(* a failing task returned alongside its error.                            *)
(***************************************************************************)
C17_ExecuteSimpleUnwraps ==
    outer # <<>> =>
        /\ ReturnedErr = NilErr => outer = <<Result.Value, NilErr>>
        /\ ReturnedErr # NilErr => outer = <<ZeroValue, ReturnedErr>>

C17_Witness ==
    /\ outer = <<ZeroValue, "other">>
    /\ Result.Value = 1
    /\ RetValueAt(Count("task")) = 1

(***************************************************************************)
(* C18: NewExecutor with no options uses exponential backoff (3 attempts,  *)
(* base 1, multiplier 2, cap 30) and a fixed timeout of 30 with no         *)
(* callbacks: an always-failing task runs exactly 3 times, each attempt    *)
(* bounded by 30, with waits of 1 after attempt 1 and 2 after attempt 2.   *)
(* Each supplied option sets its own field and every field without an      *)
(* option keeps its default.                                               *)
(***************************************************************************)
OptionFields(options) == {options[i].field : i \in DOMAIN options}

C18_Defaults ==
    entry.fn = "ExecuteSimple" =>
        /\ "retryStrategy" \notin OptionFields(entry.options) =>
              executor.retryStrategy =
                 [kind |-> "exponential", maxAttempts |-> 3, baseDelay |-> 1,
                  multiplier |-> 2, maxDelay |-> 30, increment |-> 0, pred |-> "none"]
        /\ "timeoutStrategy" \notin OptionFields(entry.options) =>
              executor.timeoutStrategy = NewFixedTimeoutStrategy(30)
        /\ "onRetry" \notin OptionFields(entry.options) => ~executor.onRetry
        /\ "onTimeout" \notin OptionFields(entry.options) => ~executor.onTimeout
        /\ \A i \in DOMAIN entry.options :
              executor[entry.options[i].field] = entry.options[i].value
        /\ entry.options = <<>> =>
              /\ Count("onRetry") = 0
              /\ Count("onTimeout") = 0
              /\ Count("task") <= 3
              /\ \A i \in Events("task") : log[i][3] = 30
              /\ \A i \in Events("wait") :
                    \/ log[i][2] = 1 /\ log[i][3] = 1
                    \/ log[i][2] = 2 /\ log[i][3] = 2
              /\ (HasReturned /\ NoCancel /\ AllAttemptsFailed) =>
                    /\ Count("task") = 3
                    /\ Count("wait") = 2

C18_Witness ==
    /\ entry.fn = "ExecuteSimple"
    /\ entry.options = <<>>
    /\ HasReturned
    /\ NoCancel
    /\ AllAttemptsFailed
    /\ Count("task") = 3
    /\ Count("wait") = 2

(***************************************************************************)
(* C20: a configured onTimeout callback is invoked exactly once per        *)
(* attempt that is run, with (attempt, GetTimeout(attempt)), immediately   *)
(* before the task of that attempt starts and in increasing attempt order  *)
(* 1, 2, 3, ...; the number of its invocations equals the number of task   *)
(* invocations.  Without the callback nothing is invoked.                  *)
(***************************************************************************)
\* Progressive timeout(1, x2, max 10), the table of TestProgressiveTimeoutStrategy
ProgressiveTable(a) ==
    CASE a = 1 -> 1 [] a = 2 -> 2 [] a = 3 -> 4 [] a = 4 -> 8 [] OTHER -> 10

CallEvents(c, kind) ==
    {i \in DOMAIN calls[c].log : calls[c].log[i][1] = kind}

\* attempt numbers of the task invocations of caller c, in order
CallTaskSeq(c) ==
    LET IsTask(e) == e[1] = "task"
        tasks == SelectSeq(calls[c].log, IsTask)
    IN [i \in DOMAIN tasks |-> tasks[i][2]]

\* what a call running alone does: attempts 1, 2, ..., n with n at most the
\* configured maximum, each task return directly after its invocation and
\* for the same attempt, a wait only after a failed attempt that is not the
\* last one, one unreleased token at most and only while the task runs, and
\* a Result that reports the call's own last attempt
RunsAsAlone(c) ==
    LET L     == calls[c]
        tasks == CallTaskSeq(c)
        n     == Len(tasks)
        rets  == CallEvents(c, "ret")
        max   == GetMaxAttempts(executor.retryStrategy)
        last  == L.log[CHOOSE i \in rets : \A j \in rets : j <= i]
    IN  /\ \A i \in DOMAIN tasks : tasks[i] = i
        /\ n <= max
        /\ \A i \in CallEvents(c, "task") :
               L.log[i][3] = GetTimeout(executor.timeoutStrategy, L.log[i][2])
        /\ \A i \in rets :
               /\ i > 1
               /\ L.log[i - 1][1] = "task"
               /\ L.log[i - 1][2] = L.log[i][2]
        /\ \A i \in CallEvents(c, "wait") :
               /\ i > 1
               /\ L.log[i - 1][1] = "ret"
               /\ L.log[i - 1][2] = L.log[i][2]
               /\ L.log[i - 1][4] # NilErr
               /\ L.log[i][2] < max
               /\ L.log[i][3] = GetDelay(executor.retryStrategy, L.log[i][2])
        /\ L.pc = "task" => AttemptOf(c) = n /\ Cardinality(rets) = n - 1
        /\ L.taskCtx \in {"live", "expired"} => L.pc = "task"
        /\ L.pc = "returned" /\ n >= 1 =>
               /\ Cardinality(rets) = n
               /\ L.returned[1].Attempt = n
               /\ L.returned[1].Value = last[3]
               /\ L.returned[1].Error \in {last[4], Canceled}
               /\ L.returned[2] = L.returned[1].Error

\* C19: concurrent calls of Execute on one Executor do not interfere: under
\* every interleaving each call's attempt numbers, tokens, task invocations
\* and Result are those of a call running alone, and the shared Executor is
\* the one the callers were given.
C19_ConcurrentCallsIndependent ==
    /\ executor = ExecutorOf(entry)
    /\ \A c \in Callers : RunsAsAlone(c)

\* C19 witness: two callers are inside their tasks at the same time on
\* different attempts, the first on its second attempt after a wait, the
\* second on its first.
C19_Witness ==
    /\ calls[1].pc = "task"
    /\ calls[2].pc = "task"
    /\ CallTaskSeq(1) = <<1, 2>>
    /\ CallTaskSeq(2) = <<1>>
    /\ CallEvents(1, "wait") # {}

(***************************************************************************)
(* Callbacks.                                                              *)
(***************************************************************************)
\* the shouldRetry event of attempt k reported true
RetryGranted(k) ==
    \E i \in Events("shouldRetry") : log[i][2] = k /\ log[i][4]

\* C21: a configured onRetry callback is invoked exactly once for each
\* inter-attempt wait, directly before the wait begins, with (k, the error
\* attempt k returned, GetDelay(k)) for the attempt k that just failed; it
\* is never invoked after a successful attempt, after ShouldRetry returned
\* false, or after the last allowed attempt, and never when not configured.
C21_OnRetryOncePerWait ==
    /\ ~executor.onRetry => Events("onRetry") = {}
    /\ executor.onRetry =>
          /\ Count("onRetry") = Count("wait")
          /\ \A i \in Events("wait") :
                /\ i > 1
                /\ log[i - 1][1] = "onRetry"
                /\ log[i - 1][2] = log[i][2]
                /\ log[i - 1][4] = log[i][3]
          /\ \A i \in Events("onRetry") :
                LET k == log[i][2]
                IN  /\ HasRet(k)
                    /\ \A j \in Events("ret") : log[j][2] = k => j < i
                    /\ RetErrAt(k) # NilErr
                    /\ log[i][3] = RetErrAt(k)
                    /\ log[i][4] = GetDelay(executor.retryStrategy, k)
                    /\ RetryGranted(k)
                    /\ k < GetMaxAttempts(executor.retryStrategy)
                    /\ \A j \in Events("onRetry") : log[j][2] = k => j = i

\* C21 witness: with a callback configured, attempt 1 failed, the callback
\* ran once before the wait, and attempt 2 succeeded.
C21_Witness ==
    /\ executor.onRetry
    /\ HasReturned
    /\ ReturnedErr = NilErr
    /\ Result.Attempt = 2
    /\ Count("onRetry") = 1
    /\ Count("wait") = 1

IsCallbackEvent(e) == e[1] \in {"onRetry", "onTimeout"}

IsControlEvent(e) == ~IsCallbackEvent(e)

\* C22: callbacks are instrumentation only: given the same strategies, task
\* outcomes and cancellation schedule, the call on the Executor with
\* onRetry and onTimeout configured is at every step at the same position,
\* has made the same task invocations and waits, holds the same tokens and
\* returns the same Result as the call on the Executor without callbacks.
C22_CallbacksAreInstrumentation ==
    LET W == sides["with"]
        N == sides["without"]
    IN  /\ SelectSeq(W.log, IsControlEvent) = N.log
        /\ SelectSeq(N.log, IsCallbackEvent) = <<>>
        /\ W.pc = N.pc
        /\ W.attempt = N.attempt
        /\ W.maxAttempts = N.maxAttempts
        /\ W.ctx = N.ctx
        /\ W.taskCtx = N.taskCtx
        /\ W.lastResult = N.lastResult
        /\ W.returned = N.returned

\* C22 witness: both calls returned after two attempts and a wait; the side
\* with callbacks saw onTimeout twice and onRetry once.
C22_Witness ==
    LET W == sides["with"]
    IN  /\ W.pc = "returned"
        /\ sides["without"].pc = "returned"
        /\ W.returned[1].Attempt = 2
        /\ Len(SelectSeq(W.log, IsCallbackEvent)) = 3
        /\ Len(W.log) = Len(sides["without"].log) + 3

(***************************************************************************)
(* Conditional retry strategy.                                             *)
(***************************************************************************)
\* what the strategy's predicate answers for (k, err); with no predicate,
\* whether err is non-nil
Accepts(k, err) ==
    IF executor.retryStrategy.pred = "none" THEN err # NilErr
    ELSE RetryablePredicate(k, err)

\* C23: for a conditional retry strategy every call ShouldRetry(k, err) in
\* Execute answers true exactly when k < maxAttempts and the predicate
\* accepts (k, err) (no predicate: err is non-nil), and the predicate is not
\* consulted when k >= maxAttempts; a task whose first error the predicate
\* rejects runs exactly once and that error is returned with Attempt = 1.
C23_ConditionalRetry ==
    Kind = "conditional" =>
        /\ \A i \in Events("shouldRetry") :
              LET k == log[i][2]
                  err == log[i][3]
              IN  /\ log[i][4] = (k < ConfiguredAttempts /\ Accepts(k, err))
                  /\ k >= ConfiguredAttempts =>
                         ~ConsultsPredicate(executor.retryStrategy, k)
        /\ (HasRet(1) /\ RetErrAt(1) # NilErr /\ ~Accepts(1, RetErrAt(1))) =>
              /\ Count("task") = 1
              /\ HasReturned =>
                    /\ Result.Attempt = 1
                    /\ Result.Error = RetErrAt(1)
                    /\ ReturnedErr = RetErrAt(1)

\* C23 witness: with the predicate "retry only retryable" and two attempts
\* allowed, the first attempt failed with another error and Execute
\* returned after ShouldRetry answered false.
C23_Witness ==
    /\ Kind = "conditional"
    /\ executor.retryStrategy.pred = "retryable"
    /\ ConfiguredAttempts = 2
    /\ HasReturned
    /\ RetErrAt(1) = "other"
    /\ \E i \in Events("shouldRetry") : log[i][2] = 1 /\ ~log[i][4]

(***************************************************************************)
(* The strategies' arithmetic.                                             *)
(***************************************************************************)
Least(a, b) == IF a <= b THEN a ELSE b

\* C24: progressive timeout with an integer multiplier >= 1: for every
\* attempt >= 1 GetTimeout(attempt) = min(base * multiplier^(attempt-1),
\* max), so it never exceeds max and never decreases from one attempt to
\* the next; base 1, multiplier 2, max 10 gives 1, 2, 4, 8, 10.
C24_ProgressiveTimeout ==
    probe # <<>> /\ probe.fn = "GetTimeout" =>
        LET t == probe.strategy
        IN  \A a \in DOMAIN probe.results :
               /\ probe.results[a] =
                      Least(t.baseTimeout * Pow(t.multiplier, a - 1), t.maxTimeout)
               /\ probe.results[a] <= t.maxTimeout
               /\ a > 1 => probe.results[a - 1] <= probe.results[a]
               /\ t = NewProgressiveTimeoutStrategy(1, 2, 10) /\ a <= 5 =>
                      probe.results[a] = ProgressiveTable(a)

\* C25: exponential backoff with an integer multiplier >= 1: for every
\* attempt >= 1 GetDelay(attempt) = min(baseDelay * multiplier^(attempt-1),
\* maxDelay), where maxDelay is the default of 30 unless WithMaxDelay
\* changed it, and the delay never exceeds maxDelay.
C25_ExponentialDelay ==
    probe # <<>> /\ probe.fn = "GetDelay" =>
        LET s == probe.strategy
        IN  /\ s.maxDelay \in {DefaultMaxDelay, 100}
            /\ \A a \in DOMAIN probe.results :
                  /\ probe.results[a] =
                         Least(s.baseDelay * Pow(s.multiplier, a - 1), s.maxDelay)
                  /\ probe.results[a] <= s.maxDelay

(***************************************************************************)
(* Service.UpdateIP.  The claims are about the last call of UpdateIP:      *)
(* svc.last holds the records and the detector it started from.            *)
(***************************************************************************)
Called == svc # <<>> /\ svc.last # NoCall

\* the provider as it was when the last call started
ProviderBefore == [svc.provider EXCEPT !.records = svc.last.before]

DetectedIP == svc.last.detector.ip

DetectionOk == ~svc.last.detector.shouldFail

\* what reading the stored record gave when the last call started
StoredBefore == GetCurrentRecord(ProviderBefore, CfgKey)

UpdateOps ==
    {i \in DOMAIN svc.last.ops : svc.last.ops[i][1] = "UpdateRecord"}

\* C26: when the stored record for (domain, recordType) can be read and
\* equals the detected public IP, UpdateIP does not call UpdateRecord,
\* leaves the provider's records unchanged and returns Success with the
\* message "Record already up to date".
C26_NoUpdateWhenUpToDate ==
    (Called /\ DetectionOk /\ StoredBefore = <<DetectedIP, NilErr>>) =>
        /\ UpdateOps = {}
        /\ svc.provider.records = svc.last.before
        /\ svc.last.ret =
               <<[Success |-> TRUE, Message |-> "Record already up to date"], NilErr>>

\* C26 witness: a call on a mock provider whose stored record equalled the
\* detected address.
C26_Witness ==
    /\ Called
    /\ DetectionOk
    /\ svc.provider.kind = "mock"
    /\ svc.last.before[CfgKey] = DetectedIP
    /\ ~svc.provider.shouldFail
    /\ Len(svc.last.ops) = 2

\* C27: when the stored record differs from the detected IP or cannot be
\* read (as always with DuckDNS), UpdateIP calls UpdateRecord exactly once,
\* with the detected IP, and when that call succeeds the provider's record
\* for (domain, recordType) equals the detected IP.
C27_UpdateWhenStale ==
    (Called /\ DetectionOk /\ StoredBefore # <<DetectedIP, NilErr>>) =>
        /\ Cardinality(UpdateOps) = 1
        /\ \A i \in UpdateOps :
               svc.last.ops[i] = <<"UpdateRecord", CfgKey, DetectedIP>>
        /\ svc.last.ret[2] = NilErr =>
               svc.provider.records[CfgKey] = DetectedIP

\* C27 witness: a call on the DuckDNS provider, whose record cannot be
\* read, changed the record to the detected address.
C27_Witness ==
    /\ Called
    /\ DetectionOk
    /\ svc.provider.kind = "duckdns"
    /\ StoredBefore[2] # NilErr
    /\ svc.last.before[CfgKey] \in IPs \ {DetectedIP}
    /\ svc.last.ret[2] = NilErr
    /\ svc.provider.records[CfgKey] = DetectedIP

\* C28: when IP detection fails UpdateIP returns a nil response and the
\* detection error, calls neither GetCurrentRecord nor UpdateRecord, and
\* the provider's records are unchanged.
C28_DetectionFailure ==
    (Called /\ ~DetectionOk) =>
        /\ svc.last.ret = <<NilResponse, GetPublicIP(svc.last.detector)[2]>>
        /\ svc.last.ret[2] # NilErr
        /\ svc.last.ops = <<(<<"GetPublicIP">>)>>
        /\ svc.provider.records = svc.last.before

\* C28 witness: a call with a failing detector on a mock provider that
\* holds a record.
C28_Witness ==
    /\ Called
    /\ ~DetectionOk
    /\ svc.provider.kind = "mock"
    /\ svc.last.before[CfgKey] \in IPs

(***************************************************************************)
(* Configuration.                                                          *)
(***************************************************************************)
\* the four conditions under which a configuration is rejected
Rejected(c) ==
    \/ c.Domain = ""
    \/ c.APIKey = ""
    \/ c.Port \notin 1..65535
    \/ c.MaxRetries < 0

\* C29: Config.Validate returns an error exactly when the DDNS domain is
\* empty, or the API key is empty, or the server port is outside 1..65535,
\* or HTTP max retries is negative; and Load returns a configuration only
\* if it passes Validate, and otherwise nil with an error.
C29_ValidateAndLoad ==
    (cfg # <<>> /\ cfg.result # NotCalled) =>
        /\ cfg.fn = "Validate" =>
              (cfg.result[2] # NilErr) = Rejected(cfg.config)
        /\ cfg.fn = "Load" =>
              /\ cfg.result[1] # NilConfig =>
                    ~Rejected(cfg.result[1]) /\ cfg.result[2] = NilErr
              /\ cfg.result[1] = NilConfig => cfg.result[2] # NilErr

\* C29 witness: Validate rejected a configuration whose only fault is port
\* 65536.
C29_Witness ==
    /\ cfg # <<>>
    /\ cfg.fn = "Validate"
    /\ cfg.result # NotCalled
    /\ cfg.config = MakeConfig("example.com", "test-key", 65536, 3)
    /\ cfg.result[2] # NilErr

\* C30: RetryStrategy.ShouldRetry is called only after an attempt has
\* failed: in every run of Execute it is never called with a nil error,
\* each call is for an attempt that has returned and carries that attempt's
\* error, and it is called at most once per attempt.
C30_ShouldRetryOnlyAfterFailure ==
    \A i \in Events("shouldRetry") :
        LET k == log[i][2]
        IN  /\ log[i][3] # NilErr
            /\ \E j \in Events("ret") :
                   j < i /\ log[j][2] = k /\ log[j][4] = log[i][3]
            /\ \A j \in Events("shouldRetry") : log[j][2] = k => j = i

\* C30 witness: attempt 1 failed and ShouldRetry was asked once; attempt 2
\* succeeded and ShouldRetry was not asked again.
C30_Witness ==
    /\ HasReturned
    /\ ReturnedErr = NilErr
    /\ Result.Attempt = 2
    /\ Count("shouldRetry") = 1
    /\ \A i \in Events("shouldRetry") : log[i][2] = 1

(***************************************************************************)
(* Release of the per-attempt token and sequencing of the attempts.        *)
(***************************************************************************)

\* Tokens derived by context.WithTimeout whose cancel() has not run yet:
\* one is derived at each task invocation and released at each task return
Unreleased == Count("task") - Count("ret")

\* The per-attempt token still holds its resources (live, or done by expiry
\* or by the parent's cancellation but cancel() not yet called)
TokenHeld == taskCtx \in {"live", "expired", "canceled"}

\* C31: the per-attempt derived token is released as soon as the task
\* returns, on every exit path (success, error, token expiry): in every
\* reachable state at most one derived token is unreleased, and that only
\* while its task runs; none is held during the inter-attempt wait and none
\* after Execute has returned.
C31_TokenReleasedAtTaskReturn ==
    /\ Unreleased \in {0, 1}
    /\ Unreleased = 1 <=> pc = "task"
    /\ TokenHeld <=> pc = "task"
    /\ pc \in {"check", "select", "parked"} => taskCtx = "released"
    /\ HasReturned => taskCtx \in {"none", "released"}

\* C31 witness: the token of attempt 1 expired while the task ran, the task
\* returned, and Execute is parked in the wait with the token released.
C31_Witness ==
    /\ pc = "parked"
    /\ attempt = 1
    /\ \E i \in Events("expire") : log[i][2] = 1
    /\ HasRet(1)
    /\ taskCtx = "released"

\* The index in the log of the n-th event of a kind
NthEvent(kind, n) ==
    CHOOSE i \in Events(kind) : Cardinality({j \in Events(kind) : j <= i}) = n

\* Task invocations that have not returned yet
InFlight == Count("task") - Count("ret")

\* C32: within one invocation attempts are strictly sequential: the attempt
\* numbers passed to the task, the strategies and the callbacks are
\* 1, 2, 3, ... without gaps or repeats, attempt k+1 starts only after
\* attempt k has returned and its wait has elapsed (the timer case of the
\* select was taken after the timer fired), and at most one task invocation
\* is in flight.
C32_AttemptsSequential ==
    /\ \A kind \in {"onTimeout", "task", "ret", "shouldRetry", "getDelay", "onRetry", "wait"} :
          \A n \in 1..Count(kind) : log[NthEvent(kind, n)][2] = n
    /\ \A i \in Events("task") :
          log[i][2] > 1 =>
             \E r \in Events("ret"), w \in Events("wait") :
                /\ r < w /\ w < i
                /\ log[r][2] = log[i][2] - 1
                /\ log[w][2] = log[i][2] - 1
    /\ (pc = "task" /\ attempt > 1) => (timerFired /\ woken = "timer")
    /\ InFlight \in {0, 1}

\* C32 witness: attempt 2 runs after attempt 1 returned and its wait elapsed,
\* with both callbacks configured.
C32_Witness ==
    /\ pc = "task"
    /\ attempt = 2
    /\ HasRet(1)
    /\ timerFired
    /\ Count("onTimeout") = 2
    /\ Count("onRetry") = 1
    /\ InFlight = 1

\* ShouldRetry answered true for a failed attempt k
RetryGrantedOnLast ==
    \E i \in Events("shouldRetry") : log[i][2] = ConfiguredAttempts /\ log[i][4]

\* C33: when the failed attempt is the last allowed one (attempt =
\* maxAttempts) and ShouldRetry nevertheless returns true (custom strategy),
\* Execute calls neither GetDelay nor onRetry for that attempt and does not
\* wait after it, and it returns that attempt's Result and error.
C33_NoWaitAfterLastAttempt ==
    RetryGrantedOnLast =>
       /\ \A i \in DOMAIN log :
             log[i][1] \in {"getDelay", "onRetry", "wait"} => log[i][2] # ConfiguredAttempts
       /\ pc \notin {"select", "parked"}
       /\ Count("task") = ConfiguredAttempts
       /\ HasReturned =>
             /\ Result = RecordResult(RetValueAt(ConfiguredAttempts),
                                      RetErrAt(ConfiguredAttempts), ConfiguredAttempts)
             /\ ReturnedErr = RetErrAt(ConfiguredAttempts)
             /\ ReturnedErr # NilErr

\* C33 witness: a custom strategy granted a retry after the failure of the
\* last allowed attempt, with onRetry configured, and Execute has returned.
C33_Witness ==
    /\ Kind = "custom"
    /\ executor.onRetry
    /\ RetryGrantedOnLast
    /\ ConfiguredAttempts >= 2
    /\ HasReturned


\* Attempt k is where the loop stops when the parent is never cancelled: it
\* succeeded, or ShouldRetry refused its error, or it is the last allowed
Stops(k) ==
    \/ RetErrAt(k) = NilErr
    \/ ~ShouldRetry(executor.retryStrategy, k, RetErrAt(k))
    \/ k = GetMaxAttempts(executor.retryStrategy)

\* C34: with the parent token never cancelled, the number of task
\* invocations made by Execute equals the
\* smallest k in 1..maxAttempts such that attempt k succeeds, or
\* ShouldRetry(k, error of attempt k) is false, or k = maxAttempts; the
\* returned Result is that of attempt k.
C34_InvocationCount ==
    (HasReturned /\ NoCancel) =>
       LET k == Count("task")
       IN  /\ k \in 1..GetMaxAttempts(executor.retryStrategy)
           /\ HasRet(k)
           /\ Stops(k)
           /\ \A j \in 1..(k - 1) : HasRet(j) /\ ~Stops(j)
           /\ Result = RecordResult(RetValueAt(k), RetErrAt(k), k)
           /\ ReturnedErr = RetErrAt(k)

(***************************************************************************)
(* ShouldRetry of the delay strategies, and WithMaxDelay.                  *)
(***************************************************************************)

\* C35: for the exponential, linear and fixed-delay strategies,
\* ShouldRetry(attempt, err) is true exactly when attempt < maxAttempts and
\* err is non-nil, for every attempt number and error; the three variants
\* agree on every input.
C35_ShouldRetryOfDelayStrategies ==
    probe # <<>> /\ probe.fn = "ShouldRetry" =>
        \A i \in DOMAIN probe.results :
           LET r == probe.results[i]
           IN  /\ \A v \in ProbeVariants :
                     r.answers[v] <=>
                        (r.attempt < probe.strategy[v].maxAttempts /\ r.err # NilErr)
               /\ \A v, w \in ProbeVariants : r.answers[v] = r.answers[w]

\* C35 witness: the three variants, built with 3 attempts, were asked about
\* attempt 2 with a deadline error and all granted the retry.
C35_Witness ==
    /\ probe # <<>>
    /\ probe.fn = "ShouldRetry"
    /\ probe.strategy["linear"].maxAttempts = 3
    /\ Len(probe.results) = 1
    /\ probe.results[1].attempt = 2
    /\ probe.results[1].err = DeadlineExceeded
    /\ \A v \in ProbeVariants : probe.results[1].answers[v]

\* C36: strategy objects are never mutated after construction: WithMaxDelay
\* leaves its receiver unchanged, so calling it on a strategy already held
\* by an Executor does not change the delays that Executor uses afterwards:
\* the held strategy stays as constructed and every delay the Executor
\* computes is the one of the strategy as constructed.
C36_WithMaxDelayLeavesReceiver ==
    probe # <<>> /\ probe.fn = "WithMaxDelay" =>
        /\ probe.held = probe.strategy
        /\ \A a \in DOMAIN probe.results :
              probe.results[a] = GetDelayOn(probe.build, probe.strategy, a)

(***************************************************************************)
(* The two return values of Execute.                                       *)
(***************************************************************************)

\* Execute returned through the Done case of the select of the wait
ReturnedFromWait == HasReturned /\ woken = "done"

\* C37: the two return values of Execute always agree: the returned Result
\* pointer is never nil (it refers to a Result with its three fields) and
\* the returned error equals Result.Error on every exit path (success,
\* ShouldRetry false, exhaustion, cancellation during the wait).
C37_ReturnValuesAgree ==
    HasReturned =>
        /\ DOMAIN returned[1] = {"Value", "Error", "Attempt"}
        /\ returned[2] = returned[1].Error

\* C37 witness: Execute returned through the Done case of the wait after a
\* failed attempt, with the cancellation error in both return values.
C37_Witness ==
    /\ ReturnedFromWait
    /\ RetErrAt(1) \in TaskErrors
    /\ returned[2] = Canceled
    /\ returned[1].Error = Canceled

\* C38: when Execute ends because the parent is cancelled during the
\* inter-attempt wait, only the Error field of the working Result is
\* overwritten: Result.Value and Result.Attempt remain those recorded for
\* the last failed attempt.
C38_OnlyErrorOverwritten ==
    ReturnedFromWait =>
        LET k == Count("task")
            recorded == RecordResult(RetValueAt(k), RetErrAt(k), k)
        IN  /\ HasRet(k)
            /\ recorded.Error # NilErr
            /\ Result.Value = recorded.Value
            /\ Result.Attempt = recorded.Attempt
            /\ Result = [recorded EXCEPT !.Error = Canceled]

\* C38 witness: the failed attempt 1 returned a non-zero value with its
\* error, the wait was cut by the cancellation, and the returned Result
\* still carries that value and attempt number.
C38_Witness ==
    /\ ReturnedFromWait
    /\ RetValueAt(1) # ZeroValue
    /\ RetErrAt(1) \in TaskErrors
    /\ Result.Value = RetValueAt(1)
    /\ Result.Attempt = 1

\* Two calls of UpdateIP in a row, the first successful, on a provider that
\* stores and returns records, both having detected the same IP
CalledTwice ==
    /\ Called
    /\ svc.prev # NoCall
    /\ svc.provider.kind = "mock"
    /\ svc.prev.ret[2] = NilErr
    /\ ~svc.prev.detector.shouldFail
    /\ DetectionOk
    /\ svc.prev.detector.ip = DetectedIP

\* C39: Service.UpdateIP is idempotent against a provider that stores and
\* returns records: after one successful UpdateIP, a second UpdateIP with
\* the same detected IP calls UpdateRecord zero times and leaves the
\* provider's records unchanged.
C39_UpdateIPIdempotent ==
    CalledTwice =>
        /\ UpdateOps = {}
        /\ svc.provider.records = svc.last.before
        /\ svc.last.ret[2] = NilErr

\* C39 witness: on a mock provider the first call stored the detected IP
\* with one UpdateRecord, and a second call followed it.
C39_Witness ==
    /\ CalledTwice
    /\ \E i \in DOMAIN svc.prev.ops : svc.prev.ops[i][1] = "UpdateRecord"
    /\ svc.prev.before[CfgKey] # DetectedIP
    /\ svc.provider.records[CfgKey] = DetectedIP

(***************************************************************************)
(* The DDNS client.                                                        *)
(***************************************************************************)

ClientEvents(kind) == {i \in DOMAIN client.events : client.events[i][1] = kind}

\* Calls of performDDNSUpdate that have not returned
InFlightUpdates == Cardinality(ClientEvents("start")) - Cardinality(ClientEvents("end"))

\* C40: in runDDNSClient updates never overlap and, once the shutdown signal
\* has cancelled the main context, no new performDDNSUpdate is started, even
\* when a ticker tick is pending at the same moment: every call of
\* performDDNSUpdate is made while the main context is live.
C40_NoUpdateAfterShutdown ==
    client # <<>> =>
        /\ InFlightUpdates \in {0, 1}
        /\ \A i \in ClientEvents("start") : client.events[i][2] = "live"

====
